---------------------------- MODULE Spec2Model ----------------------------
(***************************************************************************)
(* Model of the BOP dashboard's Drive module (src/js/drive.js): the        *)
(* filename derivation (getWeekStart, getMonthStart), the document         *)
(* locator and merger (findAllFiles, getChecklistForDate), the             *)
(* discrepancy ledger editor (removeDiscrepancia) and the folder resolver  *)
(* (findStores, getStoreFolders, findInventarioFolder, clearCache),        *)
(* together with Inventario.parseCSV and Inventario.marcarTodosRevisados   *)
(* (src/unnamed/part_001) and the logout of Auth (src/unnamed/part_002);   *)
(* of the application (src/js/app.js): the selection of a store and of a   *)
(* date, the refresh timer and handleLogout; and of the stats of           *)
(* Checklist.parse (src/unnamed/part_001), computed in binary64; and of    *)
(* the Inventario tab (loadInventario and marcarRevisado with              *)
(* getDiscrepancias) and of listAvailableDates.                            *)
(*                                                                         *)
(* Text is modelled as a sequence of one-character strings, so that        *)
(* splitting, trimming, padding and concatenation are computed and not     *)
(* assumed.  There is one specification per component; each one keeps the  *)
(* variables of the other components at their initial value.               *)
(***************************************************************************)
EXTENDS Integers, Sequences, FiniteSets, TLC

VARIABLES
    \* ---- filename derivation (getChecklistForDate, lines 318-320)
    dayIdx,         \* position of the input date in the reference calendar
    dateStr,        \* the dateStr argument, as text
    fnPc,           \* "input" | "derived"
    weekStart,      \* getWeekStart(dateStr), as text
    monthStart,     \* getMonthStart(dateStr), as text
    filenames,      \* <<dailyFilename, weeklyFilename, monthlyFilename>>
    \* ---- document locator and merger
    folderCache,    \* role -> folder id or NoId (the four role slots of one store)
    remoteFiles,    \* set of files [folder, class, id, doc] in the remote store
    gcPc,           \* position of the getChecklistForDate call
    gcDate,         \* its dateStr argument
    allFiles,       \* the located files, in the order of line 338
    results,        \* per located file: Pending, Failed (null) or the download
    lastSettled,    \* index in allFiles of the download that settled last, 0 if none
    gcResult,       \* the value returned (NoResult before the return)
    \* ---- discrepancy ledger editor
    inventarioFolders, \* ids of the remote folders named Inventario of the store
    ledger,         \* the remote discrepancias.csv: [exists, folder, content]
    rdPc,           \* position of the removeDiscrepancia call
    rdKey,          \* its articulo argument, as text
    inventarioId,   \* the folder id the call resolved
    csvContent,     \* the text the call downloaded
    newContent,     \* the text the call uploads
    rdOutcome,      \* "none" | "ok" | "error"
    rdError,        \* the error thrown, "" when none
    nDownloads,     \* ledger downloads issued by the current call
    nUploads,       \* ledger uploads issued by the current call
    ledgerBefore,   \* the remote ledger when the current call started
    prevCall,       \* summary of the call completed before the current one
    unauthSent,     \* requests the current call issued while there was no token
    \* ---- Auth collaborator
    token,          \* Auth.getToken() returns a token
    \* ---- Inventario module (src/unnamed/part_001)
    currentStore,   \* the store loadInventario was last called for, "" if none
    items,          \* the rows in memory
    mtPc,           \* position of the marcarTodosRevisados call
    itemsToMark,    \* its argument: the Articulo values of the items, in order
    removedCount,   \* its counter
    mtOutcomes,     \* the outcomes of the cycles it has finished, in order
    mtBefore,       \* the remote ledger and the items when it was called
    \* ---- other writers of the ledger
    other,          \* a second removeDiscrepancia call: [pc, key, csv, content, outcome]
    editorAt,       \* position of the first call when the external editor wrote
    lastWriter,     \* who wrote the ledger last: "none", "rd", "other", "editor"
    \* ---- folder resolver
    tree,           \* the remote folder tree: [roots, stores, shape, gen]
    fs,             \* the findStores call: its position, locals and result
    sf,             \* the getStoreFolders call: its position, locals and result
    fi,             \* the findInventarioFolder call: its position and result
    \* ---- application (src/js/app.js)
    appState,       \* state of app.js: [selectedStore, selectedDate, availableDates]
    refreshInterval,\* the refresh timer and the selection it was armed under
    storeLoads,     \* the number of suspended selectStore calls
    loads,          \* the suspended selectDate calls: how many per (store, date) requested
    runs,           \* the suspended refreshCurrentDate runs: how many per (store, date)
    view,           \* the checklist container: [shown, content]
    online,         \* the argument of the last UI.setOnlineStatus call
    tick,           \* how the refresh run that ended in the last step ended, or "none"
    uncaught,       \* an error has left a handler of the application
    alerts,         \* the number of UI.showError calls of the last step
    storeAnswer,    \* how the selectStore call that ended in the last step
                    \* ended, or "none"
    selectionLoad,  \* how the load of the selection ended: "none" while none
                    \* was issued, "pending", "data", "null" or "error"
    \* ---- Checklist.parse (src/unnamed/part_001)
    rawData,        \* the document given to parse: the item lists of its checklists
    parsedData,     \* what parse returned
    \* ---- the Inventario tab (src/unnamed/part_001, src/js/app.js)
    mrPc,           \* position of the marcarRevisado call
    mrBefore,       \* the items and the remote ledger when it was called
    li,             \* store -> the loadInventario call for it: [pc, inventarioId, outcome]
    \* ---- listAvailableDates (src/js/drive.js)
    roleFiles,      \* role -> the names of the files of its folder
    failing,        \* the roles whose listing request fails
    listed          \* the listAvailableDates call: [pc, dates], dates as returned

dateVars   == <<dayIdx, dateStr, fnPc, weekStart, monthStart, filenames>>
mergeVars  == <<folderCache, remoteFiles, gcPc, gcDate, allFiles, results,
                lastSettled, gcResult>>
ledgerVars == <<inventarioFolders, ledger, rdPc, rdKey, inventarioId,
                csvContent, newContent, rdOutcome, rdError, nDownloads,
                nUploads, ledgerBefore, prevCall, unauthSent>>
authVars   == <<token>>
inventarioVars == <<currentStore, items, mtPc, itemsToMark, removedCount,
                    mtOutcomes, mtBefore>>
raceVars == <<other, editorAt, lastWriter>>
resolveVars == <<tree, fs, sf, fi>>
appVars == <<appState, refreshInterval, storeLoads, loads, runs, view, online,
             tick, uncaught, alerts, storeAnswer,
             selectionLoad>>
statsVars == <<rawData, parsedData>>
tabVars == <<mrPc, mrBefore, li>>
datesVars == <<roleFiles, failing, listed>>
vars == <<dateVars, mergeVars, ledgerVars, authVars, inventarioVars, raceVars,
          resolveVars, appVars, statsVars, tabVars, datesVars>>

-----------------------------------------------------------------------------
(* Bounds *)

\* number of days after the first day of the reference calendar
NumDays == 440
\* largest number of candidate files present in the remote store
MaxFiles == 2
\* largest number of lines after the header in an initial ledger
MaxRows == 2
\* largest number of items handed to marcarTodosRevisados
MaxBatch == 2
\* how often the remote folder tree changes in one session
MaxTreeChanges == 1

\* suspended selectStore calls at a time, and suspended selectDate calls and
\* refresh runs at a time, taken together
MaxStoreLoads == 1
MaxInFlight == 2

\* items of the first checklist of a document, and of its second
MaxItems == 40
MaxSecond == 1

-----------------------------------------------------------------------------
(* Text *)

DigitChars == <<"0", "1", "2", "3", "4", "5", "6", "7", "8", "9">>

DigitVal(c) == (CHOOSE i \in 1..10 : DigitChars[i] = c) - 1

\* Number(s) for a text made of decimal digits
RECURSIVE Number(_)
Number(s) ==
    IF Len(s) = 0 THEN 0
    ELSE 10 * Number(SubSeq(s, 1, Len(s) - 1)) + DigitVal(s[Len(s)])

\* String(n) for a natural number: shortest decimal form
RECURSIVE String(_)
String(n) ==
    IF n < 10 THEN <<DigitChars[n + 1]>>
    ELSE String(n \div 10) \o <<DigitChars[(n % 10) + 1]>>

\* s.padStart(len, c)
RECURSIVE padStart(_, _, _)
padStart(s, len, c) ==
    IF Len(s) >= len THEN s ELSE padStart(<<c>> \o s, len, c)

\* s.split(sep) for a one-character separator: the pieces between separators
RECURSIVE split(_, _)
split(s, sep) ==
    IF \A i \in 1..Len(s) : s[i] # sep THEN <<s>>
    ELSE LET k == CHOOSE i \in 1..Len(s) :
                      s[i] = sep /\ \A j \in 1..(i - 1) : s[j] # sep
         IN  <<SubSeq(s, 1, k - 1)>> \o split(SubSeq(s, k + 1, Len(s)), sep)

\* pieces.join(sep)
RECURSIVE join(_, _)
join(pieces, sep) ==
    IF Len(pieces) = 0 THEN <<>>
    ELSE IF Len(pieces) = 1 THEN pieces[1]
    ELSE pieces[1] \o <<sep>> \o join(Tail(pieces), sep)


-----------------------------------------------------------------------------
(* Reference calendar: the proleptic Gregorian calendar walked day by day  *)
(* from a known Monday.  It is what the derived dates are compared with,   *)
(* and it is the source of the input dates.                                *)

FirstDay == <<2023, 12, 25>>     \* a Monday

IsLeap(y) == (y % 4 = 0 /\ y % 100 # 0) \/ y % 400 = 0

DaysInMonth(y, m) ==
    IF m = 2 THEN (IF IsLeap(y) THEN 29 ELSE 28)
    ELSE IF m \in {4, 6, 9, 11} THEN 30 ELSE 31

NextDay(t) ==
    IF t[3] < DaysInMonth(t[1], t[2]) THEN <<t[1], t[2], t[3] + 1>>
    ELSE IF t[2] < 12 THEN <<t[1], t[2] + 1, 1>>
    ELSE <<t[1] + 1, 1, 1>>

\* the date n days after t, walked month by month
RECURSIVE DaysAfter(_, _)
DaysAfter(t, n) ==
    IF t[3] + n <= DaysInMonth(t[1], t[2]) THEN <<t[1], t[2], t[3] + n>>
    ELSE DaysAfter(NextDay(<<t[1], t[2], DaysInMonth(t[1], t[2])>>),
                   n - (DaysInMonth(t[1], t[2]) - t[3]) - 1)

\* Calendar[i + 1] is the date i days after FirstDay
Calendar == [i \in 1..(NumDays + 1) |-> DaysAfter(FirstDay, i - 1)]

\* "YYYY-MM-DD" of a calendar date (years of four digits)
DateText(t) ==
    String(t[1]) \o <<"-">> \o padStart(String(t[2]), 2, "0")
                 \o <<"-">> \o padStart(String(t[3]), 2, "0")

-----------------------------------------------------------------------------
(* The Date object.  A Date built from local fields and read back through  *)
(* local getters is modelled by its local day number (days since           *)
(* 1970-01-01); MakeDay and the getters follow ECMAScript's day arithmetic.*)

\* day number of year y, month index mi (0..11), first of the month
DayFromYearMonth(y, mi) ==
    LET m   == mi + 1
        yy  == IF m <= 2 THEN y - 1 ELSE y
        era == yy \div 400
        yoe == yy - era * 400
        mp  == IF m > 2 THEN m - 3 ELSE m + 9
        doy == (153 * mp + 2) \div 5
        doe == yoe * 365 + yoe \div 4 - yoe \div 100 + doy
    IN  era * 146097 + doe - 719468

\* MakeDay(year, month, date): a month index outside 0..11 and a day outside
\* the month carry over
MakeDay(year, monthIndex, day) ==
    DayFromYearMonth(year + (monthIndex \div 12), monthIndex % 12) + day - 1

\* new Date(year, monthIndex, day): years 0..99 mean 1900..1999
NewDate(year, monthIndex, day) ==
    MakeDay(IF year >= 0 /\ year <= 99 THEN 1900 + year ELSE year,
            monthIndex, day)

\* <<getFullYear(), getMonth(), getDate()>> of a day number
DateFields(z) ==
    LET zz  == z + 719468
        era == zz \div 146097
        doe == zz - era * 146097
        yoe == (doe - doe \div 1460 + doe \div 36524 - doe \div 146096) \div 365
        doy == doe - (365 * yoe + yoe \div 4 - yoe \div 100)
        mp  == (5 * doy + 2) \div 153
        d   == doy - (153 * mp + 2) \div 5 + 1
        m   == IF mp < 10 THEN mp + 3 ELSE mp - 9
        y   == yoe + era * 400 + (IF m <= 2 THEN 1 ELSE 0)
    IN  <<y, m - 1, d>>

\* getDay(): 0 is Sunday; 1970-01-01 was a Thursday
getDay(z) == (z + 4) % 7

\* date.setDate(v): the day of the month becomes v, overflowing into the
\* neighbouring months
setDate(z, v) ==
    LET f == DateFields(z) IN MakeDay(f[1], f[2], v)

\* getWeekStart without the case of Sunday: diff = 1 - dayOfWeek
getWeekStartSundayAsFirst(s) ==
    LET p     == split(s, "-")
        date  == NewDate(Number(p[1]), Number(p[2]) - 1, Number(p[3]))
        moved == setDate(date, DateFields(date)[3] + (1 - getDay(date)))
        f     == DateFields(moved)
    IN  String(f[1]) \o <<"-">> \o padStart(String(f[2] + 1), 2, "0")
                     \o <<"-">> \o padStart(String(f[3]), 2, "0")

\* getWeekStart(dateStr), lines 293-303
getWeekStart(s) ==
    LET p         == split(s, "-")
        year      == Number(p[1])
        month     == Number(p[2])
        day       == Number(p[3])
        date      == NewDate(year, month - 1, day)
        dayOfWeek == getDay(date)
        diff      == IF dayOfWeek = 0 THEN -6 ELSE 1 - dayOfWeek
        moved     == setDate(date, DateFields(date)[3] + diff)
        f         == DateFields(moved)
    IN  String(f[1]) \o <<"-">> \o padStart(String(f[2] + 1), 2, "0")
                     \o <<"-">> \o padStart(String(f[3]), 2, "0")

\* getMonthStart without the padding of the month
getMonthStartUnpadded(s) ==
    LET p == split(s, "-")
    IN  String(Number(p[1])) \o <<"-">> \o String(Number(p[2])) \o <<"-", "0", "1">>

\* getMonthStart(dateStr), lines 308-311
getMonthStart(s) ==
    LET p     == split(s, "-")
        year  == Number(p[1])
        month == Number(p[2])
    IN  String(year) \o <<"-">> \o padStart(String(month), 2, "0")
                     \o <<"-", "0", "1">>

JsonSuffix    == <<".", "j", "s", "o", "n">>
WeeklySuffix  == <<"_", "w", "e", "e", "k", "l", "y">> \o JsonSuffix
MonthlySuffix == <<"_", "m", "o", "n", "t", "h", "l", "y">> \o JsonSuffix

\* the three candidate filenames, lines 318-320
dailyFilename(s)   == s \o JsonSuffix
weeklyFilename(s)  == getWeekStart(s) \o WeeklySuffix
monthlyFilename(s) == getMonthStart(s) \o MonthlySuffix


-----------------------------------------------------------------------------
(* Values the variables of a component hold while it is not the one under  *)
(* check.                                                                  *)

NoText == <<>>

DateIdle ==
    /\ dayIdx = 0
    /\ dateStr = NoText
    /\ fnPc = "input"
    /\ weekStart = NoText
    /\ monthStart = NoText
    /\ filenames = <<NoText, NoText, NoText>>

-----------------------------------------------------------------------------
(* Specification of the filename derivation: the input is any date of the  *)
(* reference calendar, the step derives the three filenames.               *)

DateInit ==
    /\ dayIdx \in 0..NumDays
    /\ dateStr = DateText(Calendar[dayIdx + 1])
    /\ fnPc = "input"
    /\ weekStart = NoText
    /\ monthStart = NoText
    /\ filenames = <<NoText, NoText, NoText>>

\* lines 318-320 of getChecklistForDate
DeriveFilenames ==
    /\ fnPc = "input"
    /\ fnPc' = "derived"
    /\ weekStart' = getWeekStart(dateStr)
    /\ monthStart' = getMonthStart(dateStr)
    /\ filenames' = <<dailyFilename(dateStr), weeklyFilename(dateStr),
                      monthlyFilename(dateStr)>>
    /\ UNCHANGED <<dayIdx, dateStr>>


-----------------------------------------------------------------------------
(* The remote store seen by the locator: the four role folders of one      *)
(* store and the candidate files in them.                                  *)

\* the role slots of the folder cache, in the order findAllFiles reads them
Roles == <<"today", "history", "admin_today", "admin_history">>
\* the filename classes, in the order of line 338
Classes == <<"daily", "weekly", "monthly">>

RoleSet  == {Roles[i] : i \in 1..Len(Roles)}
ClassSet == {Classes[i] : i \in 1..Len(Classes)}

\* the Drive id of the folder cached under a key; NoId is the missing entry
NoId == <<>>
FolderId(key) == <<"folder", key>>
\* the store of the documents and of the ledger, and a second store
TheStore == "store"
OtherStore == "sur"
StoreNames == {TheStore, OtherStore}
\* the kinds of entry kept per store name
SlotRoles == RoleSet \cup {"store", "dashboard", "inventario"}
\* the key `${role}_${storeName}`; the keys of TheStore are written without
\* their suffix
Slot(role, name) == IF name = TheStore THEN role ELSE role \o "_" \o name
\* the keys of folderCache: 'BOP' and the keys of the stores
CacheKeys == {"BOP"} \cup {Slot(r, n) : r \in SlotRoles, n \in StoreNames}
AdminFolders == {FolderId("admin_today"), FolderId("admin_history")}

ChecklistNames == {"1D Apertura", "2S Limpieza"}

\* the checklist object a file holds under a name: its items differ from
\* those of every other file
ChecklistObject(role, class, name) ==
    [items |-> << [text |-> name, completed |-> TRUE,  by |-> <<role, class>>],
                  [text |-> name, completed |-> FALSE, by |-> <<role, class>>] >>]

\* the JSON documents a candidate file may hold: without a checklists
\* member, or with a checklists mapping over one or both of the names
Documents(role, class) ==
    {[hasChecklists |-> FALSE, checklists |-> [n \in {} |-> 0]]}
    \cup {[hasChecklists |-> TRUE,
           checklists |-> [n \in N |-> ChecklistObject(role, class, n)]] :
          N \in {{"1D Apertura"}, ChecklistNames}}

File(slot, doc) ==
    [folder |-> FolderId(slot[1]), name |-> slot[2], id |-> slot, doc |-> doc]

\* the date the calls are made for
CallDates == {DateText(<<2024, 3, 14>>)}

\* the role folders a store may have: the Admin subtree, and History, are
\* optional
FolderShapes ==
    { {}, {"today"}, {"today", "history"},
      {"today", "history", "admin_today"}, RoleSet }

NoResult == [kind |-> "none", date |-> NoText, checklists |-> [n \in {} |-> 0]]

CacheEmpty == folderCache = [k \in CacheKeys |-> NoId]

MergeIdle ==
    /\ remoteFiles = {}
    /\ gcPc = "idle"
    /\ gcDate = NoText
    /\ allFiles = <<>>
    /\ results = <<>>
    /\ lastSettled = 0
    /\ gcResult = NoResult

-----------------------------------------------------------------------------
(* Document locator and merger                                             *)

\* search("'<folderId>' in parents and name = '<filename>' ..."), line 234
searchFile(files, folderId, filename) ==
    LET hit == {f \in files : f.folder = folderId /\ f.name = filename}
    IN  IF hit = {} THEN <<>> ELSE <<CHOOSE f \in hit : TRUE>>

\* findFileInFolder, lines 231-240: <<>> stands for null
findFileInFolder(files, folderId, filename) ==
    IF folderId = NoId THEN <<>>
    ELSE LET found == searchFile(files, folderId, filename)
         IN  IF Len(found) > 0 THEN <<found[1]>> ELSE <<>>

\* isAdmin set for the Admin/History probe only
isAdminOfLastProbeOnly(i) == i >= 4

\* the isAdmin flag findAllFiles gives the file of the i-th probe, lines 283-286
isAdminOfProbe(i) == i >= 3

\* findAllFiles, lines 267-288
RECURSIVE findAllFilesFrom(_, _, _, _)
findAllFilesFrom(cache, files, filename, i) ==
    IF i > Len(Roles) THEN <<>>
    ELSE LET probe == findFileInFolder(files, cache[Roles[i]], filename)
             here  == IF Len(probe) > 0
                      THEN <<[id |-> probe[1].id, name |-> probe[1].name,
                              isAdmin |-> isAdminOfProbe(i)]>>
                      ELSE <<>>
         IN  here \o findAllFilesFrom(cache, files, filename, i + 1)

findAllFiles(cache, files, filename) == findAllFilesFrom(cache, files, filename, 1)

\* lines 325-338: [...dailyFiles, ...weeklyFiles, ...monthlyFiles]
locateAll(cache, files) ==
    findAllFiles(cache, files, Classes[1])
        \o findAllFiles(cache, files, Classes[2])
        \o findAllFiles(cache, files, Classes[3])

\* downloadFile(id), lines 44-64, when the response is ok: the parsed JSON
downloadFile(files, id) == (CHOOSE f \in files : f.id = id).doc

Pending == [state |-> "pending", isAdmin |-> FALSE,
            data |-> [hasChecklists |-> FALSE, checklists |-> [n \in {} |-> 0]]]
\* the null a failed download is turned into, lines 348-351
Failed == [state |-> "null", isAdmin |-> FALSE,
           data |-> [hasChecklists |-> FALSE, checklists |-> [n \in {} |-> 0]]]
Downloaded(data, isAdmin) == [state |-> "ok", isAdmin |-> isAdmin, data |-> data]

\* a merge step that keeps the entry a name already has
mergeOneKeepFirst(checklists, result) ==
    IF result.state = "ok" /\ result.data.hasChecklists
    THEN [n \in (DOMAIN checklists) \cup (DOMAIN result.data.checklists) |->
            IF n \in DOMAIN checklists
            THEN checklists[n]
            ELSE [items |-> result.data.checklists[n].items,
                  _isAdmin |-> result.isAdmin]]
    ELSE checklists

\* one step of results.forEach, lines 362-371: the entries of a result
\* replace the entries of the same names
mergeOne(checklists, result) ==
    IF result.state = "ok" /\ result.data.hasChecklists
    THEN [n \in (DOMAIN checklists) \cup (DOMAIN result.data.checklists) |->
            IF n \in DOMAIN result.data.checklists
            THEN [items |-> result.data.checklists[n].items,
                  _isAdmin |-> result.isAdmin]
            ELSE checklists[n]]
    ELSE checklists

\* results.forEach, lines 357-371
RECURSIVE combine(_, _)
combine(res, k) ==
    IF k = 0 THEN [n \in {} |-> 0]
    ELSE mergeOne(combine(res, k - 1), res[k])

\* a return without the test for an empty mapping
returnValueAlways(date, checklists) ==
    [kind |-> "bundle", date |-> date, checklists |-> checklists]

\* the value returned at line 373
returnValue(date, checklists) ==
    IF Cardinality(DOMAIN checklists) > 0
    THEN [kind |-> "bundle", date |-> date, checklists |-> checklists]
    ELSE [kind |-> "null", date |-> NoText, checklists |-> [n \in {} |-> 0]]

\* the whole of lines 357-373
mergeResults(date, res) == returnValue(date, combine(res, Len(res)))

MergeInit ==
    /\ \E existing \in FolderShapes :
         /\ folderCache = [k \in CacheKeys |->
                              IF k \in existing \cup {"store"}
                              THEN FolderId(k) ELSE NoId]
         /\ \E S \in SUBSET (existing \X ClassSet) :
              /\ Cardinality(S) <= MaxFiles
              /\ \E docOf \in [S -> UNION {Documents(s[1], s[2]) : s \in S}] :
                   /\ \A s \in S : docOf[s] \in Documents(s[1], s[2])
                   /\ remoteFiles = {File(s, docOf[s]) : s \in S}
    /\ gcPc = "idle"
    /\ gcDate = NoText
    /\ allFiles = <<>>
    /\ results = <<>>
    /\ lastSettled = 0
    /\ gcResult = NoResult

\* getChecklistForDate(store, dateStr) is called, line 317
GcCall(d) ==
    /\ gcPc = "idle"
    /\ gcPc' = "locating"
    /\ gcDate' = d
    /\ UNCHANGED <<folderCache, remoteFiles, allFiles, results, lastSettled, gcResult>>

\* lines 325-352, every search responded: the files are collected; with none
\* the call returns null, otherwise one download per file is issued
GcLocate ==
    /\ gcPc = "locating"
    /\ LET found == locateAll(folderCache, remoteFiles) IN
         /\ allFiles' = found
         /\ IF Len(found) = 0
            THEN /\ gcPc' = "returned"
                 /\ gcResult' = [kind |-> "null", date |-> NoText,
                                 checklists |-> [n \in {} |-> 0]]
                 /\ results' = <<>>
            ELSE /\ gcPc' = "downloading"
                 /\ gcResult' = gcResult
                 /\ results' = [k \in 1..Len(found) |-> Pending]
    /\ UNCHANGED <<folderCache, remoteFiles, gcDate, lastSettled>>

\* a failed probe counted as a probe that found nothing
GcLocateFailSoft ==
    /\ gcPc = "locating"
    /\ \E r \in RoleSet :
         /\ folderCache[r] # NoId
         /\ LET found == locateAll([folderCache EXCEPT ![r] = NoId], remoteFiles) IN
              /\ allFiles' = found
              /\ IF Len(found) = 0
                 THEN /\ gcPc' = "returned"
                      /\ gcResult' = [kind |-> "null", date |-> NoText,
                                      checklists |-> [n \in {} |-> 0]]
                      /\ results' = <<>>
                 ELSE /\ gcPc' = "downloading"
                      /\ gcResult' = gcResult
                      /\ results' = [k \in 1..Len(found) |-> Pending]
    /\ UNCHANGED <<folderCache, remoteFiles, gcDate, lastSettled>>

\* lines 325-329: the search of one probe fails; Promise.all rejects and the
\* call throws (a probe of an uncached role issues no search)
GcLocateFail ==
    /\ gcPc = "locating"
    /\ \E r \in RoleSet : folderCache[r] # NoId
    /\ gcPc' = "failed"
    /\ gcResult' = [kind |-> "error", date |-> NoText,
                    checklists |-> [n \in {} |-> 0]]
    /\ UNCHANGED <<folderCache, remoteFiles, gcDate, allFiles, results, lastSettled>>

\* lines 346-347: the download of the k-th located file succeeds
GcDownloadOk(k) ==
    /\ gcPc = "downloading"
    /\ results[k].state = "pending"
    /\ results' = [results EXCEPT ![k] =
                      Downloaded(downloadFile(remoteFiles, allFiles[k].id),
                                 allFiles[k].isAdmin)]
    /\ lastSettled' = k
    /\ UNCHANGED <<folderCache, remoteFiles, gcPc, gcDate, allFiles, gcResult>>

\* a failed download without the catch: Promise.all rejects, the call throws
GcDownloadFailUncaught(k) ==
    /\ gcPc = "downloading"
    /\ results[k].state = "pending"
    /\ results' = [results EXCEPT ![k] = Failed]
    /\ lastSettled' = k
    /\ gcPc' = "failed"
    /\ gcResult' = [kind |-> "error", date |-> NoText,
                    checklists |-> [n \in {} |-> 0]]
    /\ UNCHANGED <<folderCache, remoteFiles, gcDate, allFiles>>

\* lines 348-351: the download of the k-th located file fails and is caught
GcDownloadFail(k) ==
    /\ gcPc = "downloading"
    /\ results[k].state = "pending"
    /\ results' = [results EXCEPT ![k] = Failed]
    /\ lastSettled' = k
    /\ UNCHANGED <<folderCache, remoteFiles, gcPc, gcDate, allFiles, gcResult>>

\* lines 354-373: every download settled; merge and return
GcMerge ==
    /\ gcPc = "downloading"
    /\ \A k \in 1..Len(results) : results[k].state # "pending"
    /\ gcResult' = mergeResults(gcDate, results)
    /\ gcPc' = "returned"
    /\ UNCHANGED <<folderCache, remoteFiles, gcDate, allFiles, results, lastSettled>>


-----------------------------------------------------------------------------
(* Ledger text                                                             *)

BOM == "\\uFEFF"      \* the one character U+FEFF
LF  == "\n"
CR  == "\r"
SP  == " "

\* the characters String.prototype.trim removes that occur in the model:
\* white space and line terminators, U+FEFF among them
IsWhiteSpace(c) == c \in {SP, "\t", LF, CR, BOM}

\* s.trim()
RECURSIVE trimStart(_)
trimStart(s) ==
    IF Len(s) > 0 /\ IsWhiteSpace(s[1]) THEN trimStart(Tail(s)) ELSE s

RECURSIVE trimEnd(_)
trimEnd(s) ==
    IF Len(s) > 0 /\ IsWhiteSpace(s[Len(s)])
    THEN trimEnd(SubSeq(s, 1, Len(s) - 1)) ELSE s

trim(s) == trimEnd(trimStart(s))

\* response.text(): UTF-8 decoding drops one leading byte-order mark
text(bytes) ==
    IF Len(bytes) > 0 /\ bytes[1] = BOM THEN Tail(bytes) ELSE bytes

\* h.replace(/^\uFEFF/, '')
stripBOM(s) == IF Len(s) > 0 /\ s[1] = BOM THEN Tail(s) ELSE s

\* cells.map(f) for the two maps of the code
mapTrim(cells) == [i \in 1..Len(cells) |-> trim(cells[i])]
mapTrimStripBOM(cells) == [i \in 1..Len(cells) |-> stripBOM(trim(cells[i]))]

Articulo   == <<"A", "r", "t", "i", "c", "u", "l", "o">>
Tienda     == <<"T", "i", "e", "n", "d", "a">>
Diferencia == <<"D", "i", "f", "e", "r", "e", "n", "c", "i", "a">>


-----------------------------------------------------------------------------
(* Ledgers the remote store may hold                                       *)

Key100 == <<"1", "0", "0">>
Key101 == <<"1", "0", "1">>
LedgerKeys == {Key100, Key101}

\* the columns beside the key of the row of a key
TiendaOf(k)     == <<"5", "3">>
DiferenciaOf(k) == IF k = Key100 THEN <<"-", "2">> ELSE <<"3">>

HeaderKeyFirst  == Articulo \o <<",">> \o Tienda \o <<",">> \o Diferencia
HeaderKeySecond == Tienda \o <<",", SP>> \o Articulo \o <<SP, ",">> \o Diferencia
HeaderNoKey     == Tienda \o <<",">> \o Diferencia
Headers == {HeaderKeyFirst, HeaderKeySecond, HeaderNoKey}

\* the lines a ledger with a given header may have after it: the row of a
\* key, plain or with blanks around the key, and blank lines
RowLine(h, k, padded) ==
    LET key == IF padded THEN <<SP>> \o k \o <<SP>> ELSE k IN
    IF h = HeaderKeyFirst
    THEN key \o <<",">> \o TiendaOf(k) \o <<",">> \o DiferenciaOf(k)
    ELSE IF h = HeaderKeySecond
    THEN TiendaOf(k) \o <<",">> \o key \o <<",">> \o DiferenciaOf(k)
    ELSE TiendaOf(k) \o <<",">> \o DiferenciaOf(k)

LinesAfter(h) ==
    {RowLine(h, k, p) : k \in LedgerKeys, p \in BOOLEAN} \cup {<<>>, <<SP>>}

\* byte-order mark, line terminator, terminator after the last line
Formats ==
    { [bom |-> FALSE, eol |-> <<LF>>,     last |-> FALSE],
      [bom |-> TRUE,  eol |-> <<LF>>,     last |-> TRUE],
      [bom |-> TRUE,  eol |-> <<CR, LF>>, last |-> TRUE] }

RECURSIVE joinLines(_, _)
joinLines(lines, eol) ==
    IF Len(lines) = 0 THEN <<>>
    ELSE eol \o lines[1] \o joinLines(Tail(lines), eol)

LedgerText(f, h, lines) ==
    (IF f.bom THEN <<BOM>> ELSE <<>>) \o h \o joinLines(lines, f.eol)
        \o (IF f.last THEN f.eol ELSE <<>>)

\* the sequences of at most MaxRows lines after a header
LineSeqs(h) == UNION {[1..n -> LinesAfter(h)] : n \in 0..MaxRows}

InitialLedgers ==
    UNION {{LedgerText(f, h, lines) : f \in Formats, lines \in LineSeqs(h)} :
           h \in Headers}

StoreId == FolderId("store")
InventarioId == FolderId("inventario")
CreatedId == <<"folder", "inventario", "created">>
LedgerFileId == <<"file", "discrepancias.csv">>

NoLedger == [exists |-> FALSE, folder |-> NoId, content |-> NoText]
NoCall == [key |-> NoText, outcome |-> "none", before |-> NoLedger,
           after |-> NoLedger]

LedgerIdle ==
    /\ inventarioFolders = {}
    /\ ledger = NoLedger
    /\ rdPc = "idle"
    /\ rdKey = NoText
    /\ inventarioId = NoId
    /\ csvContent = NoText
    /\ newContent = NoText
    /\ rdOutcome = "none"
    /\ rdError = ""
    /\ nDownloads = 0
    /\ nUploads = 0
    /\ ledgerBefore = NoLedger
    /\ prevCall = NoCall
    /\ unauthSent = {}

\* a session with a token: handleTokenResponse has stored one
LoggedIn == token = TRUE

\* no second call, no external write
NoOther == [pc |-> "idle", key |-> NoText, csv |-> NoText, content |-> NoText,
            outcome |-> "none"]

RaceIdle ==
    /\ other = NoOther
    /\ editorAt = "none"
    /\ lastWriter = "none"

NoStore == ""

\* the Inventario module before any load
InventarioIdle ==
    /\ currentStore = NoStore
    /\ items = <<>>
    /\ mtPc = "idle"
    /\ itemsToMark = <<>>
    /\ removedCount = 0
    /\ mtOutcomes = <<>>
    /\ mtBefore = [ledger |-> NoLedger, items |-> <<>>]

-----------------------------------------------------------------------------
(* Inventario.parseCSV, src/unnamed/part_001 lines 31-61: the rows of a    *)
(* ledger as the application reads them.  A row is the mapping from the    *)
(* header names to the trimmed cells.                                      *)

\* values[index] ? values[index].trim() : ''
cellOrEmpty(cells, index) ==
    IF index <= Len(cells) /\ Len(cells[index]) > 0
    THEN trim(cells[index]) ELSE <<>>

\* the object built by headers.forEach: a later column of the same name
\* replaces an earlier one
rowObject(headers, values) ==
    [h \in {headers[i] : i \in 1..Len(headers)} |->
        LET last == CHOOSE i \in 1..Len(headers) :
                        headers[i] = h /\ \A j \in (i + 1)..Len(headers) : headers[j] # h
        IN  cellOrEmpty(values, last)]

RECURSIVE parseRows(_, _, _)
parseRows(headers, lines, i) ==
    IF i > Len(lines) THEN <<>>
    ELSE LET line == trim(lines[i]) IN
         IF Len(line) = 0 THEN parseRows(headers, lines, i + 1)
         ELSE <<rowObject(headers, split(line, ","))>>
                  \o parseRows(headers, lines, i + 1)

\* the header names, lines 37-43
headersOf(lines) == mapTrim(split(stripBOM(lines[1]), ","))

parseCSV(content) ==
    IF Len(content) = 0 THEN <<>>
    ELSE LET lines == split(trim(content), LF) IN
         IF Len(lines) < 2 THEN <<>>
         ELSE parseRows(headersOf(lines), lines, 2)

-----------------------------------------------------------------------------
(* removeDiscrepancia, lines 489-584                                       *)

\* a lookup that falls back to the first column when none is named Articulo
findIndexArticuloOrFirst(headerCols) ==
    IF \E i \in 1..Len(headerCols) : headerCols[i] = Articulo
    THEN CHOOSE i \in 1..Len(headerCols) :
             headerCols[i] = Articulo /\ \A j \in 1..(i - 1) : headerCols[j] # Articulo
    ELSE 1

\* headerCols.findIndex(h => h === 'Articulo'), 1-based; 0 stands for -1
findIndexArticulo(headerCols) ==
    IF \E i \in 1..Len(headerCols) : headerCols[i] = Articulo
    THEN CHOOSE i \in 1..Len(headerCols) :
             headerCols[i] = Articulo /\ \A j \in 1..(i - 1) : headerCols[j] # Articulo
    ELSE 0

\* a comparison that never matches (a number compared with text by !==)
keepsRowAlways(rowArticulo, articulo) == TRUE

\* the test of line 554: the row is kept
keepsRow(rowArticulo, articulo) == rowArticulo # articulo

\* the loop without the skip of blank lines (line 549)
RECURSIVE filterLinesKeepBlank(_, _, _, _)
filterLinesKeepBlank(lines, articuloIndex, articulo, i) ==
    IF i > Len(lines) THEN <<>>
    ELSE LET line == trim(lines[i])
             rest == filterLinesKeepBlank(lines, articuloIndex, articulo, i + 1)
             cols == split(line, ",")
         IN  IF cellOrEmpty(cols, articuloIndex) # articulo
             THEN <<line>> \o rest ELSE rest

\* the loop of lines 547-559 from line i on
RECURSIVE filterLines(_, _, _, _)
filterLines(lines, articuloIndex, articulo, i) ==
    IF i > Len(lines) THEN <<>>
    ELSE LET line == trim(lines[i])
             rest == filterLines(lines, articuloIndex, articulo, i + 1)
         IN  IF Len(line) = 0 THEN rest
             ELSE LET cols        == split(line, ",")
                      rowArticulo == cellOrEmpty(cols, articuloIndex)
                  IN  IF keepsRow(rowArticulo, articulo)
                      THEN <<line>> \o rest ELSE rest

\* the rewrite with the loop started one line late
rewriteLedgerFromThirdLine(csv, articulo) ==
    LET lines == split(trim(csv), LF) IN
    IF Len(lines) < 2 THEN [step |-> "return", content |-> NoText]
    ELSE LET header        == lines[1]
             headerCols    == mapTrimStripBOM(split(header, ","))
             articuloIndex == findIndexArticulo(headerCols)
         IN  IF articuloIndex = 0 THEN [step |-> "throw", content |-> NoText]
             ELSE [step |-> "upload",
                   content |-> <<BOM>> \o join(<<header>> \o
                       filterLines(lines, articuloIndex, articulo, 3), LF)]

\* lines 526-562: what the call does with the downloaded text.  "return" is
\* the early return of line 530, "throw" the error of line 543, "upload"
\* carries the new content of line 562
rewriteLedger(csv, articulo) ==
    LET lines == split(trim(csv), LF) IN
    IF Len(lines) < 2 THEN [step |-> "return", content |-> NoText]
    ELSE LET header        == lines[1]
             headerCols    == mapTrimStripBOM(split(header, ","))
             articuloIndex == findIndexArticulo(headerCols)
         IN  IF articuloIndex = 0 THEN [step |-> "throw", content |-> NoText]
             ELSE [step |-> "upload",
                   content |-> <<BOM>> \o join(<<header>> \o
                       filterLines(lines, articuloIndex, articulo, 2), LF)]

LedgerInit ==
    /\ \E storeCached \in BOOLEAN, folderExists \in BOOLEAN,
          folderCached \in BOOLEAN, fileExists \in BOOLEAN :
         /\ folderCached => folderExists
         /\ fileExists => folderExists
         /\ ~storeCached => folderExists /\ ~folderCached /\ ~fileExists
         /\ folderCache = [k \in CacheKeys |->
                IF k = "store" /\ storeCached THEN StoreId
                ELSE IF k = "inventario" /\ folderCached THEN InventarioId
                ELSE NoId]
         /\ inventarioFolders = IF folderExists THEN {InventarioId} ELSE {}
         /\ IF fileExists
            THEN \E c \in InitialLedgers :
                    ledger = [exists |-> TRUE, folder |-> InventarioId, content |-> c]
            ELSE ledger = NoLedger
    /\ rdPc = "idle"
    /\ rdKey = NoText
    /\ inventarioId = NoId
    /\ csvContent = NoText
    /\ newContent = NoText
    /\ rdOutcome = "none"
    /\ rdError = ""
    /\ nDownloads = 0
    /\ nUploads = 0
    /\ ledgerBefore = NoLedger
    /\ prevCall = NoCall
    /\ unauthSent = {}

\* the error of apiRequest and downloadFile without a token, lines 16 and 47
NotAuthenticated == "Not authenticated"

\* the requests a call has issued without a token, one more when a request
\* is issued now
sentNow(sent, kind) == IF token THEN sent ELSE sent \cup {kind}

\* the call ends: it returns true or throws
RdEnd(outcome, error) ==
    /\ rdPc' = "done"
    /\ rdOutcome' = outcome
    /\ rdError' = error

\* removeDiscrepancia(store, articulo) is called: lines 489-490 and the
\* synchronous start of findInventarioFolder, lines 390-403.  With a cached
\* folder the call goes on to the search of line 494 at once; either search
\* is an apiRequest, which throws without a token (line 16)
RdCall(articulo) ==
    /\ rdPc \in {"idle", "done"}
    /\ prevCall' = IF rdPc = "done"
                   THEN [key |-> rdKey, outcome |-> rdOutcome,
                         before |-> ledgerBefore, after |-> ledger]
                   ELSE prevCall
    /\ rdKey' = articulo
    /\ ledgerBefore' = ledger
    /\ csvContent' = NoText
    /\ newContent' = NoText
    /\ nDownloads' = 0
    /\ nUploads' = 0
    /\ unauthSent' = {}
    /\ IF folderCache["store"] = NoId
       THEN /\ RdEnd("error", "Store folder not found")
            /\ inventarioId' = NoId
       ELSE IF ~token
       THEN /\ RdEnd("error", NotAuthenticated)
            /\ inventarioId' = folderCache["inventario"]
       ELSE IF folderCache["inventario"] # NoId
       THEN /\ rdPc' = "search"
            /\ inventarioId' = folderCache["inventario"]
            /\ rdOutcome' = "none"
            /\ rdError' = ""
       ELSE /\ rdPc' = "findFolder"
            /\ inventarioId' = NoId
            /\ rdOutcome' = "none"
            /\ rdError' = ""
    /\ UNCHANGED <<folderCache, inventarioFolders, ledger>>

\* findInventarioFolder, lines 403-414, and findOrCreateInventarioFolder,
\* lines 420-439: the folder search responded.  A folder found is cached and
\* the call goes on to the search of line 494; with none the creation
\* request is issued with whatever Auth.getToken() returns (lines 427-439)
RdFindFolderAlwaysCreates ==
    /\ rdPc = "findFolder"
    /\ rdPc' = "create"
    /\ unauthSent' = sentNow(unauthSent, "create")
    /\ UNCHANGED <<folderCache, inventarioId, rdOutcome, rdError>>
    /\ UNCHANGED <<inventarioFolders, ledger, rdKey, csvContent, newContent,
                   nDownloads, nUploads, ledgerBefore, prevCall>>
RdFindFolder ==
    /\ rdPc = "findFolder"
    /\ IF inventarioFolders # {}
       THEN LET id == CHOOSE f \in inventarioFolders : TRUE IN
            /\ folderCache' = [folderCache EXCEPT !["inventario"] = id]
            /\ inventarioId' = id
            /\ IF token
               THEN rdPc' = "search" /\ UNCHANGED <<rdOutcome, rdError>>
               ELSE RdEnd("error", NotAuthenticated)
            /\ UNCHANGED unauthSent
       ELSE /\ rdPc' = "create"
            /\ unauthSent' = sentNow(unauthSent, "create")
            /\ UNCHANGED <<folderCache, inventarioId, rdOutcome, rdError>>
    /\ UNCHANGED <<inventarioFolders, ledger, rdKey, csvContent, newContent,
                   nDownloads, nUploads, ledgerBefore, prevCall>>

\* findOrCreateInventarioFolder, lines 441-447: the folder was created (the
\* store creates nothing for a request that carried no token); the call goes
\* on to the search of line 494
RdCreate ==
    /\ rdPc = "create"
    /\ "create" \notin unauthSent
    /\ inventarioFolders' = inventarioFolders \cup {CreatedId}
    /\ folderCache' = [folderCache EXCEPT !["inventario"] = CreatedId]
    /\ inventarioId' = CreatedId
    /\ IF token
       THEN rdPc' = "search" /\ UNCHANGED <<rdOutcome, rdError>>
       ELSE RdEnd("error", NotAuthenticated)
    /\ UNCHANGED <<ledger, rdKey, csvContent, newContent,
                   nDownloads, nUploads, ledgerBefore, prevCall, unauthSent>>

\* the search step without the test for an empty result: reading
\* result.files[0].id throws
RdSearchUnchecked ==
    /\ rdPc = "search"
    /\ IF ledger.exists /\ ledger.folder = inventarioId
       THEN /\ rdPc' = "download"
            /\ nDownloads' = nDownloads + 1
            /\ unauthSent' = sentNow(unauthSent, "download")
            /\ UNCHANGED <<rdOutcome, rdError>>
       ELSE /\ RdEnd("error", "TypeError")
            /\ UNCHANGED <<nDownloads, unauthSent>>
    /\ UNCHANGED <<folderCache, inventarioFolders, ledger, rdKey, inventarioId,
                   csvContent, newContent, nUploads, ledgerBefore, prevCall>>

\* lines 494-515: the search for discrepancias.csv responded; without a file
\* the call returns true, with one the download is issued, carrying the
\* token read at line 491, whatever Auth.getToken() returns by now
RdSearch ==
    /\ rdPc = "search"
    /\ IF ledger.exists /\ ledger.folder = inventarioId
       THEN /\ rdPc' = "download"
            /\ nDownloads' = nDownloads + 1
            /\ unauthSent' = sentNow(unauthSent, "download")
            /\ UNCHANGED <<rdOutcome, rdError>>
       ELSE /\ RdEnd("ok", "")
            /\ UNCHANGED <<nDownloads, unauthSent>>
    /\ UNCHANGED <<folderCache, inventarioFolders, ledger, rdKey, inventarioId,
                   csvContent, newContent, nUploads, ledgerBefore, prevCall>>

\* lines 517-574: the download responded ok; the text is rewritten and the
\* upload issued, unless the call returns at line 530 or throws at line 543
RdDownloadEager ==
    /\ rdPc = "download"
    /\ LET csv == text(ledger.content)
           r   == rewriteLedger(csv, rdKey)
       IN  /\ csvContent' = csv
           /\ IF r.step = "return"
              THEN /\ RdEnd("ok", "")
                   /\ UNCHANGED <<newContent, nUploads, unauthSent>>
              ELSE IF r.step = "throw"
              THEN /\ RdEnd("error", "Articulo column not found in discrepancias.csv")
                   /\ UNCHANGED <<newContent, nUploads, unauthSent>>
              ELSE /\ RdEnd("ok", "")
                   /\ newContent' = r.content
                   /\ nUploads' = nUploads + 1
                   /\ unauthSent' = sentNow(unauthSent, "upload")
    /\ UNCHANGED <<folderCache, inventarioFolders, ledger, rdKey, inventarioId,
                   nDownloads, ledgerBefore, prevCall>>
RdDownload ==
    /\ rdPc = "download"
    /\ LET csv == text(ledger.content)
           r   == rewriteLedger(csv, rdKey)
       IN  /\ csvContent' = csv
           /\ IF r.step = "return"
              THEN /\ RdEnd("ok", "")
                   /\ UNCHANGED <<newContent, nUploads, unauthSent>>
              ELSE IF r.step = "throw"
              THEN /\ RdEnd("error", "Articulo column not found in discrepancias.csv")
                   /\ UNCHANGED <<newContent, nUploads, unauthSent>>
              ELSE /\ rdPc' = "upload"
                   /\ newContent' = r.content
                   /\ nUploads' = nUploads + 1
                   /\ unauthSent' = sentNow(unauthSent, "upload")
                   /\ UNCHANGED <<rdOutcome, rdError>>
    /\ UNCHANGED <<folderCache, inventarioFolders, ledger, rdKey, inventarioId,
                   nDownloads, ledgerBefore, prevCall>>

\* an upload that applies the removal to the content the file holds now
RdUploadRebased ==
    /\ rdPc = "upload"
    /\ LET r == rewriteLedger(text(ledger.content), rdKey)
       IN  ledger' = [ledger EXCEPT !.content =
                         IF r.step = "upload" THEN r.content ELSE ledger.content]
    /\ RdEnd("ok", "")
    /\ UNCHANGED <<folderCache, inventarioFolders, rdKey, inventarioId,
                   csvContent, newContent, nDownloads, nUploads, ledgerBefore,
                   prevCall, unauthSent>>

\* lines 576-583: the upload responded ok; the file holds the new content
RdUpload ==
    /\ rdPc = "upload"
    /\ ledger' = [ledger EXCEPT !.content = newContent]
    /\ RdEnd("ok", "")
    /\ UNCHANGED <<folderCache, inventarioFolders, rdKey, inventarioId,
                   csvContent, newContent, nDownloads, nUploads, ledgerBefore,
                   prevCall, unauthSent>>

\* the error thrown when the request pending at a position fails:
\* lines 35, 442, 520 and 579
errorAt(pc) ==
    IF pc = "create" THEN "Failed to create Inventario folder"
    ELSE IF pc = "download" THEN "Failed to download discrepancias.csv"
    ELSE IF pc = "upload" THEN "Failed to update discrepancias.csv"
    ELSE "API request failed"

\* the pending request of the call responds with an error status
RdRequestFails ==
    /\ rdPc \in {"findFolder", "create", "search", "download", "upload"}
    /\ RdEnd("error", errorAt(rdPc))
    /\ UNCHANGED <<folderCache, inventarioFolders, ledger, rdKey, inventarioId,
                   csvContent, newContent, nDownloads, nUploads, ledgerBefore,
                   prevCall, unauthSent>>

-----------------------------------------------------------------------------
(* Inventario.marcarTodosRevisados, src/unnamed/part_001 lines 165-184     *)

\* item.Articulo of a row in memory; a row without the property gives
\* undefined, which equals no text
Undefined == <<"undefined">>
itemArticulo(row) == IF Articulo \in DOMAIN row THEN row[Articulo] ELSE Undefined

\* items.filter(i => i.Articulo !== articulo), lines 156 and 176
itemsWithout(rows, articulo) ==
    LET Keep(row) == itemArticulo(row) # articulo IN SelectSeq(rows, Keep)

\* the loop body without the try/catch: a failed cycle ends the call
afterCycleUncaught(outcome, rows, count, articulo) ==
    IF outcome = "ok"
    THEN [items |-> itemsWithout(rows, articulo), count |-> count + 1,
          thrown |-> FALSE]
    ELSE [items |-> rows, count |-> count, thrown |-> TRUE]

\* lines 173-180: what the loop does once the cycle of a key has ended
afterCycle(outcome, rows, count, articulo) ==
    IF outcome = "ok"
    THEN [items |-> itemsWithout(rows, articulo), count |-> count + 1,
          thrown |-> FALSE]
    ELSE [items |-> rows, count |-> count, thrown |-> FALSE]

\* the ledgers of the batch runs: two lines after the header
BatchLedgers ==
    UNION {{LedgerText(f, h, lines) :
                f \in {g \in Formats : g.eol = <<CR, LF>>},
                lines \in [1..2 -> LinesAfter(h)]} : h \in Headers}

\* the batches: the Articulo values of itemsToMark
Batches == UNION {[1..n -> LedgerKeys] : n \in 0..MaxBatch}

\* the state after loadInventario (lines 67-84) read the ledger, or before
\* any load
BatchInit ==
    /\ \E storeCached \in BOOLEAN, folderExists \in BOOLEAN,
          folderCached \in BOOLEAN, fileExists \in BOOLEAN, loaded \in BOOLEAN :
         /\ folderCached => folderExists
         /\ fileExists => folderExists
         /\ folderCache = [k \in CacheKeys |->
                IF k = "store" /\ storeCached THEN StoreId
                ELSE IF k = "inventario" /\ folderCached THEN InventarioId
                ELSE NoId]
         /\ inventarioFolders = IF folderExists THEN {InventarioId} ELSE {}
         /\ IF fileExists
            THEN \E c \in BatchLedgers :
                    ledger = [exists |-> TRUE, folder |-> InventarioId, content |-> c]
            ELSE ledger = NoLedger
         /\ currentStore = IF loaded THEN TheStore ELSE NoStore
         /\ items = IF loaded /\ ledger.exists
                    THEN parseCSV(text(ledger.content)) ELSE <<>>
    /\ rdPc = "idle"
    /\ rdKey = NoText
    /\ inventarioId = NoId
    /\ csvContent = NoText
    /\ newContent = NoText
    /\ rdOutcome = "none"
    /\ rdError = ""
    /\ nDownloads = 0
    /\ nUploads = 0
    /\ ledgerBefore = NoLedger
    /\ prevCall = NoCall
    /\ unauthSent = {}
    /\ mtPc = "idle"
    /\ itemsToMark = <<>>
    /\ removedCount = 0
    /\ mtOutcomes = <<>>
    /\ mtBefore = [ledger |-> NoLedger, items |-> <<>>]

\* marcarTodosRevisados(itemsToMark) is called, lines 165-174: without a store
\* it throws; otherwise the loop starts the cycle of the first item
MtCall(keys) ==
    /\ mtPc = "idle"
    /\ itemsToMark' = keys
    /\ removedCount' = 0
    /\ mtOutcomes' = <<>>
    /\ mtBefore' = [ledger |-> ledger, items |-> items]
    /\ IF currentStore = NoStore
       THEN mtPc' = "failed" /\ UNCHANGED <<ledgerVars, folderCache>>
       ELSE IF Len(keys) = 0
       THEN mtPc' = "returned" /\ UNCHANGED <<ledgerVars, folderCache>>
       ELSE mtPc' = "awaiting" /\ RdCall(keys[1])
    /\ UNCHANGED <<currentStore, items>>

\* lines 174-183: the awaited removeDiscrepancia has ended; the loop counts
\* it or catches its error, then starts the cycle of the next item or returns
MtCycleEnd ==
    /\ mtPc = "awaiting"
    /\ rdPc = "done"
    /\ LET i == Len(mtOutcomes) + 1
           r == afterCycle(rdOutcome, items, removedCount, itemsToMark[i])
       IN  /\ mtOutcomes' = Append(mtOutcomes, rdOutcome)
           /\ items' = r.items
           /\ removedCount' = r.count
           /\ IF r.thrown
              THEN mtPc' = "failed" /\ UNCHANGED <<ledgerVars, folderCache>>
              ELSE IF i < Len(itemsToMark)
              THEN mtPc' = "awaiting" /\ RdCall(itemsToMark[i + 1])
              ELSE mtPc' = "returned" /\ UNCHANGED <<ledgerVars, folderCache>>
    /\ UNCHANGED <<currentStore, itemsToMark, mtBefore>>

-----------------------------------------------------------------------------
(* Inventario.marcarRevisado, src/unnamed/part_001 lines 147-159, called   *)
(* by handleOkClick with the Articulo of a row of the table                *)

\* items.filter(item => item.Articulo !== String(articulo)), line 156: the
\* argument is a text, which String leaves as it is; a row without the
\* property has undefined, which is no text
itemsWithoutString(rows, articulo) ==
    LET Keep(row) == Articulo \notin DOMAIN row \/ row[Articulo] # articulo
    IN  SelectSeq(rows, Keep)

\* marcarRevisado(articulo) is called, lines 147-153: without a store it
\* throws; otherwise removeDiscrepancia is called and awaited
MrCall(articulo) ==
    /\ mrPc = "idle"
    /\ mrBefore' = [items |-> items, ledger |-> ledger]
    /\ IF currentStore = NoStore
       THEN mrPc' = "failed" /\ UNCHANGED <<ledgerVars, folderCache>>
       ELSE mrPc' = "awaiting" /\ RdCall(articulo)
    /\ UNCHANGED <<currentStore, items>>

\* marcarRevisado removing the row whatever the remote removal did
MrEndOptimistic ==
    /\ mrPc = "awaiting"
    /\ rdPc = "done"
    /\ items' = itemsWithoutString(items, rdKey)
    /\ mrPc' = IF rdOutcome = "ok" THEN "returned" ELSE "failed"
    /\ UNCHANGED <<currentStore, mrBefore, ledgerVars, folderCache>>
\* lines 153-158: the awaited removeDiscrepancia has ended; its error leaves
\* the function, its success is followed by the removal of the row in memory
MrEnd ==
    /\ mrPc = "awaiting"
    /\ rdPc = "done"
    /\ IF rdOutcome = "ok"
       THEN items' = itemsWithoutString(items, rdKey) /\ mrPc' = "returned"
       ELSE items' = items /\ mrPc' = "failed"
    /\ UNCHANGED <<currentStore, mrBefore, ledgerVars, folderCache>>

-----------------------------------------------------------------------------
(* Inventario.loadInventario, src/unnamed/part_001 lines 67-84, with       *)
(* Drive.getDiscrepancias, src/js/drive.js lines 454-481, and the          *)
(* findOrCreateInventarioFolder it starts with, lines 390-448.  There is   *)
(* one call per store at a time; the calls of two stores may overlap.      *)

\* the folder a getDiscrepancias call creates
LoadCreatedId == <<"folder", "inventario", "created by load">>

\* the Inventario folder and the ledger of the second store, which nothing
\* writes: the folder exists and the ledger holds the row of key 102
SurInventarioId == FolderId("inventario_sur")
SurLedger ==
    [exists |-> TRUE, folder |-> SurInventarioId,
     content |-> <<BOM>> \o HeaderKeyFirst \o <<LF>>
                     \o <<"1", "0", "2", ",", "5", "3", ",", "7">>]

\* the remote folders named Inventario of a store, and its ledger
RemoteFolders(s) == IF s = TheStore THEN inventarioFolders ELSE {SurInventarioId}
RemoteLedger(s) == IF s = TheStore THEN ledger ELSE SurLedger

\* no call, and the call of a store at a position
LiIdle == [pc |-> "idle", inventarioId |-> NoId, outcome |-> "none"]
LiAt(s, pc, id) == [li EXCEPT ![s] = [pc |-> pc, inventarioId |-> id, outcome |-> "none"]]
LiEnded(s, outcome) == [li EXCEPT ![s].pc = "idle", ![s].outcome = outcome]

\* loadInventario(storeName) is called, lines 67-73: the store is taken and
\* the items are emptied; findInventarioFolder, lines 390-401, throws
\* without the store folder, returns the cached id or issues its search
LiCall(s) ==
    /\ li[s].pc = "idle"
    /\ currentStore' = s
    /\ items' = <<>>
    /\ li' = IF folderCache[Slot("store", s)] = NoId \/ ~token
             THEN LiEnded(s, "error")
             ELSE IF folderCache[Slot("inventario", s)] # NoId
             THEN LiAt(s, "search", folderCache[Slot("inventario", s)])
             ELSE LiAt(s, "findFolder", NoId)
    /\ UNCHANGED <<folderCache, inventarioFolders, ledger>>

\* lines 403-415 and 420-439: the search of the folder has answered; the
\* first id of the answer is cached, or the creation is issued
LiFindFolder(s) ==
    /\ li[s].pc = "findFolder"
    /\ IF RemoteFolders(s) # {}
       THEN \E id \in RemoteFolders(s) :
            /\ folderCache' = [folderCache EXCEPT ![Slot("inventario", s)] = id]
            /\ li' = LiAt(s, "search", id)
       ELSE /\ li' = LiAt(s, "create", NoId)
            /\ UNCHANGED folderCache
    /\ UNCHANGED <<inventarioFolders, ledger, currentStore, items>>

\* the creation leaving an id the cache already holds in place
LiCreateKeepingCache(s) ==
    /\ li[s].pc = "create"
    /\ s = TheStore
    /\ inventarioFolders' = inventarioFolders \cup {LoadCreatedId}
    /\ folderCache' = IF folderCache[Slot("inventario", s)] = NoId
                      THEN [folderCache EXCEPT ![Slot("inventario", s)] = LoadCreatedId]
                      ELSE folderCache
    /\ li' = LiAt(s, "search", LoadCreatedId)
    /\ UNCHANGED <<ledger, currentStore, items>>
\* lines 441-447: the folder was created; its id is cached and the search of
\* the ledger is issued, lines 457-460
LiCreate(s) ==
    /\ li[s].pc = "create"
    /\ s = TheStore
    /\ inventarioFolders' = inventarioFolders \cup {LoadCreatedId}
    /\ folderCache' = [folderCache EXCEPT ![Slot("inventario", s)] = LoadCreatedId]
    /\ li' = LiAt(s, "search", LoadCreatedId)
    /\ UNCHANGED <<ledger, currentStore, items>>

\* lines 462-476: the search of the ledger has answered; without a file
\* getDiscrepancias returns null and loadInventario returns with the items
\* as they are, lines 75-79; otherwise the download is issued
LiSearch(s) ==
    /\ li[s].pc = "search"
    /\ li' = IF RemoteLedger(s).exists /\ RemoteLedger(s).folder = li[s].inventarioId
             THEN LiAt(s, "download", li[s].inventarioId)
             ELSE LiEnded(s, "null")
    /\ UNCHANGED <<folderCache, inventarioFolders, ledger, currentStore, items>>

\* loadInventario keeping the rows in memory when it has any
LiDownloadKeeping(s) ==
    /\ li[s].pc = "download"
    /\ LET csvText == text(RemoteLedger(s).content) IN
         items' = IF Len(csvText) > 0 /\ Len(items) = 0
                  THEN parseCSV(csvText) ELSE items
    /\ li' = LiEnded(s, "ok")
    /\ UNCHANGED <<folderCache, inventarioFolders, ledger, currentStore>>
\* lines 478-480 and 75-79: the download has answered with the text of the
\* file; a text that is not empty is parsed into the items
LiDownload(s) ==
    /\ li[s].pc = "download"
    /\ LET csvText == text(RemoteLedger(s).content) IN
         items' = IF Len(csvText) > 0 THEN parseCSV(csvText) ELSE items
    /\ li' = LiEnded(s, "ok")
    /\ UNCHANGED <<folderCache, inventarioFolders, ledger, currentStore>>

\* a request of the call fails: the error leaves getDiscrepancias and
\* loadInventario, lines 80-83
LiFail(s) ==
    /\ li[s].pc \in {"findFolder", "create", "search", "download"}
    /\ li' = LiEnded(s, "error")
    /\ UNCHANGED <<folderCache, inventarioFolders, ledger, currentStore, items>>

-----------------------------------------------------------------------------
(* Other writers of the ledger: a second removeDiscrepancia call that      *)
(* overlaps the first (lines 489-584 again, with its own locals), and the  *)
(* inventory program, which owns the file (lines 386-388).                 *)

Key102 == <<"1", "0", "2">>

\* the ledger the inventory program writes: a new discrepancy, key 102
EditorLedger ==
    <<BOM>> \o HeaderKeyFirst
            \o <<LF>> \o RowLine(HeaderKeyFirst, Key100, FALSE)
            \o <<LF>> \o RowLine(HeaderKeyFirst, Key101, FALSE)
            \o <<LF>> \o Key102 \o <<",", "5", "3", ",", "7">>

\* both calls find the folder in the cache and the file in the store
RaceInit ==
    /\ folderCache = [k \in CacheKeys |->
           IF k = "store" THEN StoreId
           ELSE IF k = "inventario" THEN InventarioId ELSE NoId]
    /\ inventarioFolders = {InventarioId}
    /\ \E c \in BatchLedgers :
          ledger = [exists |-> TRUE, folder |-> InventarioId, content |-> c]
    /\ rdPc = "idle"
    /\ rdKey = NoText
    /\ inventarioId = NoId
    /\ csvContent = NoText
    /\ newContent = NoText
    /\ rdOutcome = "none"
    /\ rdError = ""
    /\ nDownloads = 0
    /\ nUploads = 0
    /\ ledgerBefore = NoLedger
    /\ prevCall = NoCall
    /\ unauthSent = {}
    /\ RaceIdle

\* lines 489-497 of the second call: the folder comes from the cache and the
\* search is issued
OtherCall(articulo) ==
    /\ other.pc = "idle"
    /\ folderCache["store"] # NoId
    /\ folderCache["inventario"] # NoId
    /\ token
    /\ other' = [other EXCEPT !.pc = "search", !.key = articulo]
    /\ UNCHANGED <<ledger, editorAt, lastWriter>>

\* lines 499-515 of the second call
OtherSearch ==
    /\ other.pc = "search"
    /\ other' = IF ledger.exists /\ ledger.folder = folderCache["inventario"]
                THEN [other EXCEPT !.pc = "download"]
                ELSE [other EXCEPT !.pc = "done", !.outcome = "ok"]
    /\ UNCHANGED <<ledger, editorAt, lastWriter>>

\* lines 517-574 of the second call
OtherDownload ==
    /\ other.pc = "download"
    /\ LET csv == text(ledger.content)
           r   == rewriteLedger(csv, other.key)
       IN  other' = IF r.step = "return"
                    THEN [other EXCEPT !.pc = "done", !.csv = csv, !.outcome = "ok"]
                    ELSE IF r.step = "throw"
                    THEN [other EXCEPT !.pc = "done", !.csv = csv,
                                       !.outcome = "error"]
                    ELSE [other EXCEPT !.pc = "upload", !.csv = csv,
                                       !.content = r.content]
    /\ UNCHANGED <<ledger, editorAt, lastWriter>>

\* lines 576-583 of the second call
OtherUpload ==
    /\ other.pc = "upload"
    /\ ledger' = [ledger EXCEPT !.content = other.content]
    /\ other' = [other EXCEPT !.pc = "done", !.outcome = "ok"]
    /\ lastWriter' = "other"
    /\ UNCHANGED editorAt

\* a request of the second call fails
OtherRequestFails ==
    /\ other.pc \in {"search", "download", "upload"}
    /\ other' = [other EXCEPT !.pc = "done", !.outcome = "error"]
    /\ UNCHANGED <<ledger, editorAt, lastWriter>>

\* the inventory program replaces the content of the file, once
EditorReplaces ==
    /\ editorAt = "none"
    /\ ledger.exists
    /\ ledger' = [ledger EXCEPT !.content = EditorLedger]
    /\ editorAt' = rdPc
    /\ lastWriter' = "editor"
    /\ UNCHANGED other

-----------------------------------------------------------------------------
(* Auth collaborator and logout                                            *)

\* Auth.logout, src/unnamed/part_002 lines 449-464, with its onLogout
\* callback App.handleLogout, src/js/app.js lines 157-170: the token is
\* dropped and Drive.clearCache empties the folder cache
Logout ==
    /\ token
    /\ token' = FALSE
    /\ folderCache' = [k \in CacheKeys |-> NoId]

\* Auth.handleTokenResponse, src/unnamed/part_002 lines 402-416: a new token
Login ==
    /\ ~token
    /\ token' = TRUE
    /\ UNCHANGED folderCache

-----------------------------------------------------------------------------
(* Folder resolver: findStores, getStoreFolders, findInventarioFolder and  *)
(* clearCache of src/js/drive.js                                           *)

\* the ids of the remote folders: the marker folders named BOP, the store
\* folders, their Dashboard folders and the folders below a Dashboard.  A
\* folder that is deleted and made again has another id (its generation)
BopFolderId(i) == <<"folder", "BOP", "", i, 0>>
StoreFolderId(name, g) == <<"folder", "store", name, g, 0>>
DashboardFolderId(name, g) == <<"folder", "dashboard", name, g, 0>>
BelowId(kind, parent, g) == <<"folder", kind, parent[3], parent[4], g>>

\* a subfolder of a marker folder: its id, its name and the files list of
\* the search for its Dashboard child
Candidate(name, g, provisioned) ==
    [id |-> StoreFolderId(name, g), name |-> name,
     dashboard |-> IF provisioned THEN <<DashboardFolderId(name, g)>>
                   ELSE <<>>]

\* the folders a Dashboard, an Admin or a store folder can hold
ShapeNames ==
    {"today", "history", "admin", "admin_today", "admin_history", "inventario"}
ShapeFull == ShapeNames

\* a remote tree: the marker folders in the order the search lists them, the
\* subfolders of each, the folders that exist below TheStore (the Dashboard of
\* the second store is empty), and their generation
Tree(roots, below1, below2, shape, g) ==
    [roots |-> roots, stores |-> <<below1, below2>>, shape |-> shape,
     gen |-> g, changes |-> 0]

Trees ==
    { Tree(<<1>>, <<Candidate(TheStore, 1, TRUE),
                    Candidate(OtherStore, 1, TRUE)>>, <<>>, ShapeFull, 1),
      Tree(<<1>>, <<Candidate(TheStore, 1, TRUE),
                    Candidate(OtherStore, 1, FALSE)>>, <<>>,
           {"today", "admin", "inventario"}, 2),
      Tree(<<>>, <<Candidate(TheStore, 1, TRUE)>>, <<>>, ShapeFull, 1),
      Tree(<<2, 1>>, <<Candidate(TheStore, 1, TRUE),
                       Candidate(OtherStore, 1, TRUE)>>, <<>>,
           {"history", "admin", "admin_history"}, 2) }

\* search, lines 69-76, for the folders named BOP (line 83)
RootFolders(t) == [i \in 1..Len(t.roots) |-> BopFolderId(t.roots[i])]

\* search for the subfolders of a folder (line 95)
ChildFolders(t, bopId) ==
    IF \E i \in 1..Len(t.roots) : BopFolderId(t.roots[i]) = bopId
    THEN t.stores[bopId[4]]
    ELSE <<>>

\* the store folders and the Dashboard folders that exist in a tree
LiveCandidates(t) ==
    UNION { {t.stores[t.roots[i]][j] : j \in 1..Len(t.stores[t.roots[i]])}
            : i \in 1..Len(t.roots) }
LiveStoreIds(t) == {c.id : c \in LiveCandidates(t)}
LiveDashboardIds(t) ==
    {c.dashboard[1] : c \in {d \in LiveCandidates(t) : Len(d.dashboard) > 0}}

\* search for the Dashboard child of a store folder (line 103)
DashboardOf(t, storeId) ==
    IF \E c \in LiveCandidates(t) : c.id = storeId
    THEN (CHOOSE c \in LiveCandidates(t) : c.id = storeId).dashboard
    ELSE <<>>

\* search for the folder Today, History or Admin below a Dashboard (lines
\* 136, 145, 154)
BelowDashboard(t, kind, dashboardId) ==
    IF dashboardId \in LiveDashboardIds(t) /\ kind \in t.shape
       /\ dashboardId[3] = TheStore
    THEN <<BelowId(kind, dashboardId, t.gen)>>
    ELSE <<>>

\* search for the folder Today or History below an Admin folder (lines 161,
\* 169)
BelowAdmin(t, kind, adminId) ==
    IF adminId # NoId /\ kind \in t.shape
       /\ <<adminId>> =
              BelowDashboard(t, "admin",
                             DashboardFolderId(adminId[3], adminId[4]))
    THEN <<BelowId(kind, adminId, t.gen)>>
    ELSE <<>>

\* search for the folder Inventario below a store folder (line 401)
BelowStore(t, storeId) ==
    IF storeId \in LiveStoreIds(t) /\ "inventario" \in t.shape
       /\ storeId[3] = TheStore
    THEN <<BelowId("inventario", storeId, t.gen)>>
    ELSE <<>>

RootFolderNotFound == "BOP folder not found in Google Drive"
DashboardNotFound == "Dashboard folder not found"
StoreFolderNotFound == "Store folder not found"
ApiRequestFailed == "API request failed"

\* the positions of a call that is not suspended
Rest == {"idle", "returned", "failed"}

NoCache == [k \in CacheKeys |-> NoId]

FsIdle ==
    [pc |-> "idle", bop |-> NoId, candidates |-> <<>>, index |-> 0,
     stores |-> <<>>, error |-> "", at |-> "", requests |-> 0,
     before |-> NoCache, cleared |-> FALSE]
SfIdle ==
    [pc |-> "idle", store |-> "", dashboardId |-> NoId, adminId |-> NoId,
     result |-> [todayId |-> NoId, historyId |-> NoId, adminTodayId |-> NoId,
                 adminHistoryId |-> NoId],
     error |-> "", at |-> "", requests |-> 0, before |-> NoCache,
     cleared |-> FALSE]
FiIdle ==
    [pc |-> "idle", store |-> "", storeId |-> NoId, result |-> NoId,
     error |-> "", at |-> "", requests |-> 0, before |-> NoCache,
     cleared |-> FALSE]

ResolveIdle ==
    /\ tree = Tree(<<>>, <<>>, <<>>, {}, 1)
    /\ fs = FsIdle
    /\ sf = SfIdle
    /\ fi = FiIdle

\* a fresh session over any of the trees
ResolveInit ==
    /\ tree \in Trees
    /\ fs = FsIdle
    /\ sf = SfIdle
    /\ fi = FiIdle
    /\ CacheEmpty

\* no resolver call is suspended; a call starts then, and the record of the
\* call before it is dropped
Quiet == fs.pc \in Rest /\ sf.pc \in Rest /\ fi.pc \in Rest

\* apiRequest, lines 13-18: the call issues its next request and is
\* suspended at `pc`, or throws when there is no token
request(call, pc) ==
    IF token
    THEN [call EXCEPT !.pc = pc, !.requests = @ + 1]
    ELSE [call EXCEPT !.pc = "failed", !.error = NotAuthenticated, !.at = pc]

\* line 87: the search found no marker folder
rootMissingOrAmbiguous(files) == Len(files) # 1
rootMissing(files) == Len(files) = 0

\* line 107: the candidate has a Dashboard child
acceptedAlways(dashboard) == TRUE
accepted(dashboard) == Len(dashboard) > 0

\* files[0].id of a files list, NoId when the list is empty
firstId(files) == IF Len(files) > 0 THEN files[1] ELSE NoId

\* findStores is called, lines 81-85
FsCall ==
    /\ Quiet
    /\ fs' = request([FsIdle EXCEPT !.before = folderCache], "root")
    /\ sf' = SfIdle
    /\ fi' = FiIdle
    /\ UNCHANGED <<folderCache, tree>>

\* the search for the marker folder answers, lines 83-97
FsRoot ==
    /\ fs.pc = "root"
    /\ LET files == RootFolders(tree)
       IN  IF rootMissing(files)
           THEN /\ fs' = [fs EXCEPT !.pc = "failed",
                                    !.error = RootFolderNotFound,
                                    !.at = "root"]
                /\ UNCHANGED folderCache
           ELSE /\ folderCache' = [folderCache EXCEPT !["BOP"] = files[1]]
                /\ fs' = request([fs EXCEPT !.bop = files[1]], "stores")
    /\ UNCHANGED <<tree, sf, fi>>

\* the search for the subfolders answers, lines 95-105
FsStores ==
    /\ fs.pc = "stores"
    /\ LET cands == ChildFolders(tree, fs.bop)
       IN  fs' = IF Len(cands) = 0
                 THEN [fs EXCEPT !.pc = "returned"]
                 ELSE request([fs EXCEPT !.candidates = cands, !.index = 1],
                              "dashboard")
    /\ UNCHANGED <<folderCache, tree, sf, fi>>

\* the search for the Dashboard child of a candidate answers, lines 101-120
FsDashboard ==
    /\ fs.pc = "dashboard"
    /\ LET c == fs.candidates[fs.index]
           dashboard == DashboardOf(tree, c.id)
           stores == IF accepted(dashboard)
                     THEN Append(fs.stores,
                                 [id |-> c.id, name |-> c.name,
                                  dashboardId |-> firstId(dashboard)])
                     ELSE fs.stores
       IN  /\ folderCache' =
                  IF accepted(dashboard)
                  THEN [folderCache EXCEPT
                           ![Slot("store", c.name)] = c.id,
                           ![Slot("dashboard", c.name)] = firstId(dashboard)]
                  ELSE folderCache
           /\ fs' = IF fs.index = Len(fs.candidates)
                    THEN [fs EXCEPT !.pc = "returned", !.stores = stores]
                    ELSE request([fs EXCEPT !.index = @ + 1,
                                            !.stores = stores], "dashboard")
    /\ UNCHANGED <<tree, sf, fi>>

\* a search of findStores fails: apiRequest throws (lines 32-36) and
\* findStores has no handler
FsFail ==
    /\ fs.pc \in {"root", "stores", "dashboard"}
    /\ fs' = [fs EXCEPT !.pc = "failed", !.error = ApiRequestFailed,
                        !.at = fs.pc]
    /\ UNCHANGED <<folderCache, tree, sf, fi>>

\* line 129: the cache has the Dashboard id of the store
dashboardCachedAlways(id) == TRUE
dashboardCached(id) == id # NoId

\* the probes of getStoreFolders, in their order
Probes == {"today", "history", "admin", "admin_today", "admin_history"}

\* the call with the searches for Today, History and Admin issued together
SfCallIssuingAll(name) ==
    /\ Quiet
    /\ LET dashboardId == folderCache[Slot("dashboard", name)]
           call == [SfIdle EXCEPT !.store = name,
                                  !.dashboardId = dashboardId,
                                  !.before = folderCache]
       IN  sf' = IF dashboardCached(dashboardId)
                 THEN request(request(request(call, "today"), "today"), "today")
                 ELSE [call EXCEPT !.pc = "failed",
                                   !.error = DashboardNotFound,
                                   !.at = "call"]
    /\ fs' = FsIdle
    /\ fi' = FiIdle
    /\ UNCHANGED <<folderCache, tree>>

\* getStoreFolders is called, lines 127-138
SfCall(name) ==
    /\ Quiet
    /\ LET dashboardId == folderCache[Slot("dashboard", name)]
           call == [SfIdle EXCEPT !.store = name,
                                  !.dashboardId = dashboardId,
                                  !.before = folderCache]
       IN  sf' = IF dashboardCached(dashboardId)
                 THEN request(call, "today")
                 ELSE [call EXCEPT !.pc = "failed",
                                   !.error = DashboardNotFound,
                                   !.at = "call"]
    /\ fs' = FsIdle
    /\ fi' = FiIdle
    /\ UNCHANGED <<folderCache, tree>>

\* the cache after a probe answered with a files list: lines 139-142,
\* 148-151, 164-166, 172-174
afterProbeForgetting(cache, key, files) ==
    [cache EXCEPT ![key] = firstId(files)]
afterProbe(cache, key, files) ==
    IF Len(files) > 0 THEN [cache EXCEPT ![key] = files[1]] ELSE cache

\* the search for Today answers, lines 136-147
SfToday ==
    /\ sf.pc = "today"
    /\ LET files == BelowDashboard(tree, "today", sf.dashboardId)
       IN  /\ folderCache' =
                  afterProbe(folderCache, Slot("today", sf.store), files)
           /\ sf' = request([sf EXCEPT !.result.todayId = firstId(files)],
                            "history")
    /\ UNCHANGED <<tree, fs, fi>>

\* the search for History answers, lines 145-156
SfHistory ==
    /\ sf.pc = "history"
    /\ LET files == BelowDashboard(tree, "history", sf.dashboardId)
       IN  /\ folderCache' =
                  afterProbe(folderCache, Slot("history", sf.store), files)
           /\ sf' = request([sf EXCEPT !.result.historyId = firstId(files)],
                            "admin")
    /\ UNCHANGED <<tree, fs, fi>>

\* the search for Admin answers, lines 154-163 and 177
SfAdmin ==
    /\ sf.pc = "admin"
    /\ LET files == BelowDashboard(tree, "admin", sf.dashboardId)
       IN  sf' = IF Len(files) > 0
                 THEN request([sf EXCEPT !.adminId = files[1]], "admin_today")
                 ELSE [sf EXCEPT !.pc = "returned"]
    /\ UNCHANGED <<folderCache, tree, fs, fi>>

\* the search for Admin/Today answers, lines 161-171: the id goes to the
\* cache and not to the result
SfAdminToday ==
    /\ sf.pc = "admin_today"
    /\ LET files == BelowAdmin(tree, "admin_today", sf.adminId)
       IN  /\ folderCache' =
                  afterProbe(folderCache, Slot("admin_today", sf.store), files)
           /\ sf' = request(sf, "admin_history")
    /\ UNCHANGED <<tree, fs, fi>>

\* the search for Admin/History answers, lines 169-177
SfAdminHistory ==
    /\ sf.pc = "admin_history"
    /\ LET files == BelowAdmin(tree, "admin_history", sf.adminId)
       IN  /\ folderCache' =
                  afterProbe(folderCache, Slot("admin_history", sf.store),
                             files)
           /\ sf' = [sf EXCEPT !.pc = "returned"]
    /\ UNCHANGED <<tree, fs, fi>>

\* a search of getStoreFolders fails: apiRequest throws (lines 32-36) and
\* getStoreFolders has no handler
SfFailUnsetting ==
    /\ sf.pc \in Probes
    /\ sf' = [sf EXCEPT !.pc = "failed", !.error = ApiRequestFailed,
                        !.at = sf.pc]
    /\ folderCache' = IF sf.pc \in RoleSet
                      THEN [folderCache EXCEPT ![Slot(sf.pc, sf.store)] = NoId]
                      ELSE folderCache
    /\ UNCHANGED <<tree, fs, fi>>
SfFail ==
    /\ sf.pc \in Probes
    /\ sf' = [sf EXCEPT !.pc = "failed", !.error = ApiRequestFailed,
                        !.at = sf.pc]
    /\ UNCHANGED <<folderCache, tree, fs, fi>>

\* line 392: the cache has the id of the store folder
storeCached(id) == id # NoId

\* findInventarioFolder is called, lines 390-403
FiCall(name) ==
    /\ Quiet
    /\ LET storeId == folderCache[Slot("store", name)]
           cached == folderCache[Slot("inventario", name)]
           call == [FiIdle EXCEPT !.store = name, !.storeId = storeId,
                                  !.before = folderCache]
       IN  fi' = IF ~storeCached(storeId)
                 THEN [call EXCEPT !.pc = "failed",
                                   !.error = StoreFolderNotFound,
                                   !.at = "call"]
                 ELSE IF cached # NoId
                 THEN [call EXCEPT !.pc = "returned", !.result = cached]
                 ELSE request(call, "search")
    /\ fs' = FsIdle
    /\ sf' = SfIdle
    /\ UNCHANGED <<folderCache, tree>>

\* the search for Inventario answers, lines 401-413
FiSearch ==
    /\ fi.pc = "search"
    /\ LET files == BelowStore(tree, fi.storeId)
       IN  /\ folderCache' =
                  afterProbe(folderCache, Slot("inventario", fi.store), files)
           /\ fi' = [fi EXCEPT !.pc = "returned", !.result = firstId(files)]
    /\ UNCHANGED <<tree, fs, sf>>

\* the search of findInventarioFolder fails
FiFail ==
    /\ fi.pc = "search"
    /\ fi' = [fi EXCEPT !.pc = "failed", !.error = ApiRequestFailed,
                        !.at = "search"]
    /\ UNCHANGED <<folderCache, tree, fs, sf>>

\* clearCache, lines 379-381; a suspended call is marked as having seen it
ClearCache ==
    /\ folderCache' = NoCache
    /\ fs' = [fs EXCEPT !.cleared = @ \/ fs.pc \notin Rest]
    /\ sf' = [sf EXCEPT !.cleared = @ \/ sf.pc \notin Rest]
    /\ fi' = [fi EXCEPT !.cleared = @ \/ fi.pc \notin Rest]
    /\ UNCHANGED tree

\* somebody changes the remote folders between two calls
TreeChange ==
    /\ Quiet
    /\ tree.changes < MaxTreeChanges
    /\ \E t \in Trees :
           /\ t # [tree EXCEPT !.changes = 0]
           /\ tree' = [t EXCEPT !.changes = tree.changes + 1]
    /\ UNCHANGED <<folderCache, fs, sf, fi>>

-----------------------------------------------------------------------------
(* Application: store and date selection, the refresh timer and the        *)
(* screen, src/js/app.js lines 213-354 with the UI functions of            *)
(* src/js/ui.js lines 47-74 and 144-155                                    *)

\* the day the session runs on and another day of the calendar
Today == "2024-03-14"
Earlier == "2024-03-10"
Dates == {Today, Earlier}

\* no store, no date: null in state, lines 5-14
NoSelection == [selectedStore |-> "", selectedDate |-> "", availableDates |-> {}]

\* a request of getChecklistForDate(store, date) and the data it answers with
Request(store, date) == [store |-> store, date |-> date]
NoData == Request("", "")
Requests == {Request(s, d) : s \in StoreNames, d \in Dates}

\* nothing is outstanding
NoRequests == [r \in Requests |-> 0]

\* refreshInterval = null, line 17
NoTimer == [armed |-> FALSE, store |-> "", date |-> ""]

\* the checklist container of the screen before anything is rendered: it is
\* hidden and holds no checklists
NoView == [shown |-> FALSE, content |-> NoData]

\* the application after login, before a store is selected
AppIdle ==
    /\ appState = NoSelection
    /\ refreshInterval = NoTimer
    /\ storeLoads = 0
    /\ loads = NoRequests
    /\ runs = NoRequests
    /\ view = NoView
    /\ online = TRUE
    /\ tick = "none"
    /\ uncaught = FALSE
    /\ alerts = 0
    /\ storeAnswer = "none"
    /\ selectionLoad = "none"

\* how many requests are outstanding
Outstanding(requests) ==
    Cardinality({x \in Requests \X (1..MaxInFlight) : x[2] <= requests[x[1]]})

\* the suspended selectDate calls and refresh runs, taken together
InFlight == Outstanding(loads) + Outstanding(runs)

\* one more request, one request answered
Issued(requests, r) == [requests EXCEPT ![r] = @ + 1]
Answered(requests, r) == [requests EXCEPT ![r] = @ - 1]

\* UI.showLoading, ui.js lines 47-51: the container is hidden
showLoading(v) == [v EXCEPT !.shown = FALSE]

\* UI.hideLoading, ui.js lines 56-58: the container stays as it is
hideLoading(v) == v

\* UI.showEmptyState, ui.js lines 63-67: the container is hidden
showEmptyState(v) == [v EXCEPT !.shown = FALSE]

\* UI.renderChecklists, ui.js lines 144-155, of data with a checklist in it
\* (getChecklistForDate returns null for a bundle without checklists): the
\* container is shown with the checklists of the data
renderChecklists(v, data) ==
    [hideLoading(v) EXCEPT !.shown = TRUE, !.content = data]

\* UI.setOnlineStatus sets the indicator and nothing else
setOnlineStatus(status) == status

\* stopAutoRefresh, lines 329-334
stopAutoRefresh == NoTimer

\* startAutoRefresh, lines 317-324: the timer is armed when a date is selected
startAutoRefresh(st) ==
    IF st.selectedDate # ""
    THEN [armed |-> TRUE, store |-> st.selectedStore, date |-> st.selectedDate]
    ELSE stopAutoRefresh

\* the dates listAvailableDates answers with: today is among them or not
DatesOf(answer) == IF answer = "today" THEN Dates ELSE {Earlier}

\* selectStore(storeName) up to its first await, lines 213-223; the store
\* selector belongs to the app screen, which a logout hides
SelectStore(storeName) ==
    /\ token
    /\ storeLoads < MaxStoreLoads
    /\ refreshInterval' = stopAutoRefresh
    /\ appState' = [appState EXCEPT !.selectedStore = storeName]
    /\ view' = showLoading(view)
    /\ storeLoads' = storeLoads + 1
    /\ selectionLoad' = "none"
    /\ UNCHANGED <<loads, runs, online, uncaught>>
    /\ tick' = "none"
    /\ alerts' = 0
    /\ storeAnswer' = "none"

\* selectStore dropping the dates it had when a request fails
StoreLoadedClearing(answer) ==
    /\ storeLoads > 0
    /\ storeLoads' = storeLoads - 1
    /\ IF answer = "today" /\ appState.selectedStore # ""
       THEN /\ InFlight < MaxInFlight
            /\ appState' = [appState EXCEPT !.selectedDate = Today,
                                            !.availableDates = DatesOf(answer)]
            /\ view' = showLoading(hideLoading(view))
            /\ loads' = Issued(loads, Request(appState.selectedStore, Today))
            /\ selectionLoad' = "pending"
            /\ UNCHANGED refreshInterval
       ELSE IF answer = "today"
       THEN /\ appState' = [appState EXCEPT !.selectedDate = Today,
                                            !.availableDates = DatesOf(answer)]
            /\ view' = showEmptyState(hideLoading(showLoading(hideLoading(view))))
            /\ refreshInterval' = stopAutoRefresh
            /\ selectionLoad' = "null"
            /\ UNCHANGED loads
       ELSE IF answer = "other"
       THEN /\ appState' = [appState EXCEPT !.availableDates = DatesOf(answer)]
            /\ view' = showEmptyState(hideLoading(view))
            /\ UNCHANGED <<refreshInterval, loads, selectionLoad>>
       ELSE /\ appState' = [appState EXCEPT !.availableDates = {}]
            /\ view' = hideLoading(view)
            /\ UNCHANGED <<refreshInterval, loads, selectionLoad>>
    /\ UNCHANGED <<runs, online, uncaught>>
    /\ tick' = "none"
    /\ alerts' = IF answer = "error" THEN 1 ELSE 0
    /\ storeAnswer' = answer
\* selectStore after its awaits, lines 223-249: the folders and the dates are
\* loaded and today is among the dates ("today") or not ("other"), or a
\* request failed ("error"); with today selectDate(today) runs up to its
\* await.  After a logout state.selectedStore is null: getChecklistForDate
\* finds no cached folder, issues no request and returns null, and
\* selectDate ends before any other event is handled
StoreLoaded(answer) ==
    /\ storeLoads > 0
    /\ storeLoads' = storeLoads - 1
    /\ IF answer = "today" /\ appState.selectedStore # ""
       THEN /\ InFlight < MaxInFlight
            /\ appState' = [appState EXCEPT !.selectedDate = Today,
                                            !.availableDates = DatesOf(answer)]
            /\ view' = showLoading(hideLoading(view))
            /\ loads' = Issued(loads, Request(appState.selectedStore, Today))
            /\ selectionLoad' = "pending"
            /\ UNCHANGED refreshInterval
       ELSE IF answer = "today"
       THEN /\ appState' = [appState EXCEPT !.selectedDate = Today,
                                            !.availableDates = DatesOf(answer)]
            /\ view' = showEmptyState(hideLoading(showLoading(hideLoading(view))))
            /\ refreshInterval' = stopAutoRefresh
            /\ selectionLoad' = "null"
            /\ UNCHANGED loads
       ELSE IF answer = "other"
       THEN /\ appState' = [appState EXCEPT !.availableDates = DatesOf(answer)]
            /\ view' = showEmptyState(hideLoading(view))
            /\ UNCHANGED <<refreshInterval, loads, selectionLoad>>
       ELSE /\ view' = hideLoading(view)
            /\ UNCHANGED <<appState, refreshInterval, loads, selectionLoad>>
    /\ UNCHANGED <<runs, online, uncaught>>
    /\ tick' = "none"
    /\ alerts' = IF answer = "error" THEN 1 ELSE 0
    /\ storeAnswer' = answer

\* selectDate(date) up to its await, lines 277-292: a day of the calendar
\* of the app screen is clicked
SelectDate(date) ==
    /\ token
    /\ appState.selectedStore # ""
    /\ InFlight < MaxInFlight
    /\ appState' = [appState EXCEPT !.selectedDate = date]
    /\ view' = showLoading(view)
    /\ loads' = Issued(loads, Request(appState.selectedStore, date))
    /\ selectionLoad' = "pending"
    /\ UNCHANGED <<refreshInterval, storeLoads, runs, online, uncaught>>
    /\ tick' = "none"
    /\ alerts' = 0
    /\ storeAnswer' = "none"

\* selectDate after its await, lines 292-311: the request r of a suspended
\* call answers with data, with null or with an error
LoadDone(r, answer) ==
    /\ loads[r] > 0
    /\ loads' = Answered(loads, r)
    /\ IF answer = "data"
       THEN /\ view' = renderChecklists(view, r)
            /\ online' = setOnlineStatus(TRUE)
            /\ refreshInterval' = startAutoRefresh(appState)
       ELSE IF answer = "null"
       THEN /\ view' = showEmptyState(hideLoading(view))
            /\ online' = online
            /\ refreshInterval' = stopAutoRefresh
       ELSE /\ view' = hideLoading(view)
            /\ online' = setOnlineStatus(FALSE)
            /\ refreshInterval' = stopAutoRefresh
    /\ selectionLoad' =
          IF r = Request(appState.selectedStore, appState.selectedDate)
          THEN answer ELSE selectionLoad
    /\ UNCHANGED <<appState, storeLoads, runs, uncaught>>
    /\ tick' = "none"
    /\ alerts' = IF answer = "error" THEN 1 ELSE 0
    /\ storeAnswer' = "none"

\* the interval elapses, lines 319-321: refreshCurrentDate runs up to its
\* await, lines 339-343
Tick ==
    /\ refreshInterval.armed
    /\ InFlight < MaxInFlight
    /\ runs' = IF appState.selectedStore = "" \/ appState.selectedDate = ""
               THEN runs
               ELSE Issued(runs, Request(appState.selectedStore, appState.selectedDate))
    /\ UNCHANGED <<appState, refreshInterval, storeLoads, loads, view, online,
                   uncaught, selectionLoad>>
    /\ tick' = "none"
    /\ alerts' = 0
    /\ storeAnswer' = "none"

\* refreshCurrentDate without its handler: the error leaves the callback
RunDoneUncaught(r, answer) ==
    /\ runs[r] > 0
    /\ runs' = Answered(runs, r)
    /\ tick' = answer
    /\ IF answer = "data"
       THEN /\ view' = renderChecklists(view, r)
            /\ online' = setOnlineStatus(TRUE)
            /\ uncaught' = uncaught
       ELSE IF answer = "null"
       THEN UNCHANGED <<view, online, uncaught>>
       ELSE /\ uncaught' = TRUE
            /\ UNCHANGED <<view, online>>
    /\ UNCHANGED <<appState, refreshInterval, storeLoads, loads, selectionLoad>>
    /\ alerts' = 0
    /\ storeAnswer' = "none"
\* refreshCurrentDate after its await, lines 343-353: the request r of a
\* suspended run answers with data, with null or with an error
RunDone(r, answer) ==
    /\ runs[r] > 0
    /\ runs' = Answered(runs, r)
    /\ tick' = answer
    /\ IF answer = "data"
       THEN /\ view' = renderChecklists(view, r)
            /\ online' = setOnlineStatus(TRUE)
       ELSE IF answer = "null"
       THEN UNCHANGED <<view, online>>
       ELSE /\ view' = view
            /\ online' = setOnlineStatus(FALSE)
    /\ UNCHANGED <<appState, refreshInterval, storeLoads, loads, uncaught, selectionLoad>>
    /\ alerts' = 0
    /\ storeAnswer' = "none"

\* App.handleLogout, lines 157-170, called by Auth.logout: the timer is
\* stopped, the selection dropped and the folder cache cleared; the calls of
\* the resolver that are suspended go on
handleLogout ==
    /\ Logout
    /\ refreshInterval' = stopAutoRefresh
    /\ appState' = NoSelection
    /\ fs' = [fs EXCEPT !.cleared = @ \/ fs.pc \notin Rest]
    /\ sf' = [sf EXCEPT !.cleared = @ \/ sf.pc \notin Rest]
    /\ fi' = [fi EXCEPT !.cleared = @ \/ fi.pc \notin Rest]
    /\ UNCHANGED <<tree, storeLoads, loads, runs, view, online, uncaught>>
    /\ tick' = "none"
    /\ alerts' = 0
    /\ storeAnswer' = "none"
    /\ selectionLoad' = "none"

-----------------------------------------------------------------------------
(* Checklist.parse, src/unnamed/part_001 lines 264-321: the item counts    *)
(* and the percentage of each checklist and of the whole document.  The    *)
(* percentage is computed in Number arithmetic: a Number is modelled by    *)
(* the 53 bits of its significand, most significant first, and the         *)
(* exponent of the first bit, with IEEE 754 round-to-nearest-even after    *)
(* the division and after the multiplication.                              *)

SignificandBits == 53

\* n zeros
Zeros(n) == [i \in 1..n |-> 0]

\* the Number +0
Zero == [m |-> Zeros(SignificandBits), e |-> 0]

\* 2^n
pow2(n) == 2 ^ n

\* the last `width` bits of a natural number
natToBits(n, width) == [i \in 1..width |-> (n \div pow2(width - i)) % 2]

\* the first n bits after the leading one of the quotient r/t, r < t: long
\* division, twenty bits at a time
RECURSIVE divBits(_, _, _)
divBits(r, t, n) ==
    IF n = 0 THEN <<>>
    ELSE LET w == IF n < 20 THEN n ELSE 20
             scaled == r * pow2(w)
         IN  natToBits(scaled \div t, w) \o divBits(scaled % t, t, n - w)

\* the remainder left after those n bits
RECURSIVE divRem(_, _, _)
divRem(r, t, n) ==
    IF n = 0 THEN r
    ELSE LET w == IF n < 20 THEN n ELSE 20
         IN  divRem((r * pow2(w)) % t, t, n - w)

\* how often c is doubled until it reaches t
RECURSIVE shiftsTo(_, _)
shiftsTo(c, t) == IF c >= t THEN 0 ELSE 1 + shiftsTo(2 * c, t)

\* the value of a short bit string
RECURSIVE bitsToNat(_)
bitsToNat(bits) ==
    IF Len(bits) = 0 THEN 0
    ELSE 2 * bitsToNat(SubSeq(bits, 1, Len(bits) - 1)) + bits[Len(bits)]

\* k * a + carry for a bit string a and small numbers k and carry, in the
\* length of a (the product is known to fit)
RECURSIVE mulAdd(_, _, _)
mulAdd(a, k, carry) ==
    IF Len(a) = 0 THEN <<>>
    ELSE LET w    == IF Len(a) < 20 THEN Len(a) ELSE 20
             low  == SubSeq(a, Len(a) - w + 1, Len(a))
             high == SubSeq(a, 1, Len(a) - w)
             n    == k * bitsToNat(low) + carry
         IN  mulAdd(high, k, n \div pow2(w)) \o natToBits(n % pow2(w), w)

\* a bit string plus one, one bit longer
increment(a) == mulAdd(<<0>> \o a, 1, 1)

\* a bit string that starts with a one and has at least 53 bits, the
\* exponent e of its first bit, and whether non-zero bits follow the
\* string, rounded to the nearest Number, ties to even
roundToNearest(bits, e, sticky) ==
    LET kept  == SubSeq(bits, 1, SignificandBits)
        guard == IF Len(bits) > SignificandBits THEN bits[SignificandBits + 1] ELSE 0
        rest  == sticky \/ \E i \in (SignificandBits + 2)..Len(bits) : bits[i] = 1
        up    == guard = 1 /\ (rest \/ kept[SignificandBits] = 1)
        next  == increment(kept)
    IN  IF ~up THEN [m |-> kept, e |-> e]
        ELSE IF next[1] = 1
        THEN [m |-> SubSeq(next, 1, SignificandBits), e |-> e + 1]
        ELSE [m |-> Tail(next), e |-> e]

\* c / t for integers 0 <= c <= t, 0 < t
divide(c, t) ==
    IF c = 0 THEN Zero
    ELSE LET s == shiftsTo(c, t)
             r == c * pow2(s) - t
         IN  roundToNearest(<<1>> \o divBits(r, t, SignificandBits),
                            -s, divRem(r, t, SignificandBits) # 0)

\* x * 100, line 301: the exact product, which has 6 or 7 bits more than x,
\* rounded
times100(x) ==
    IF x = Zero THEN Zero
    ELSE LET product == mulAdd(Zeros(7) \o x.m, 100, 0)
         IN  IF product[1] = 1
             THEN roundToNearest(product, x.e + 7, FALSE)
             ELSE roundToNearest(Tail(product), x.e + 6, FALSE)

\* Math.round(x) for 0 <= x < 2^31: floor(x + 1/2)
mathRound(x) ==
    IF x = Zero \/ x.e < -1 THEN 0
    ELSE IF x.e = -1 THEN 1
    ELSE bitsToNat(SubSeq(x.m, 1, x.e + 1)) + x.m[x.e + 2]

\* lines 300-302 and 315-317, in exact arithmetic
percentageExact(completed, total) ==
    IF total > 0 THEN (200 * completed + total) \div (2 * total) ELSE 0
\* lines 300-302 and 315-317: length > 0 ? Math.round((completed / length) * 100) : 0
percentage(completed, total) ==
    IF total > 0 THEN mathRound(times100(divide(completed, total))) ELSE 0

\* items.filter(item => item.completed).length, line 286
completedCount(itemList) == Cardinality({i \in 1..Len(itemList) : itemList[i]})

\* lines 296-303: the stats of one checklist
checklistStats(itemList) ==
    LET total == Len(itemList)
        completed == completedCount(itemList)
    IN  [total |-> total, completed |-> completed, pending |-> total - completed,
         percentage |-> percentage(completed, total)]

\* the sum of a field over the first n checklists, lines 307-309
RECURSIVE sumOver(_, _, _)
sumOver(list, field, n) ==
    IF n = 0 THEN 0 ELSE sumOver(list, field, n - 1) + list[n][field]

\* Checklist.parse, lines 264-321: the stats of every checklist of the
\* document and the stats of the document
parse(data) ==
    LET checklists == [k \in 1..Len(data) |-> checklistStats(data[k])]
        total == sumOver(checklists, "total", Len(data))
        completed == sumOver(checklists, "completed", Len(data))
        pending == sumOver(checklists, "pending", Len(data))
    IN  [checklists |-> checklists,
         stats |-> [total |-> total, completed |-> completed, pending |-> pending,
                    percentage |-> percentage(completed, total)]]

\* an item list of `total` items with `completed` of them completed, the
\* completed ones first or last
ItemList(completed, total, first) ==
    [i \in 1..total |-> IF first THEN i <= completed ELSE i > total - completed]

\* the item lists of the first checklist and of the second
FirstLists ==
    {ItemList(c, t, f) : <<c, t, f>> \in
        {x \in (0..MaxItems) \X (0..MaxItems) \X BOOLEAN : x[1] <= x[2]}}
SecondLists ==
    {ItemList(c, t, TRUE) : <<c, t>> \in
        {x \in (0..MaxSecond) \X (0..MaxSecond) : x[1] <= x[2]}}

\* the documents given to parse: none, one or two checklists
ParseInputs ==
    {<<>>} \cup {<<a>> : a \in FirstLists}
           \cup {<<a, b>> : a \in FirstLists, b \in SecondLists}

NoParsed ==
    [checklists |-> <<>>,
     stats |-> [total |-> -1, completed |-> -1, pending |-> -1, percentage |-> -1]]

\* no document has been parsed
StatsIdle ==
    /\ rawData = <<>>
    /\ parsedData = NoParsed

\* a document arrives
StatsInit ==
    /\ rawData \in ParseInputs
    /\ parsedData = NoParsed

\* Checklist.parse(data) is called, line 264
Parse ==
    /\ parsedData = NoParsed
    /\ parsedData' = parse(rawData)
    /\ UNCHANGED rawData

-----------------------------------------------------------------------------
(* Drive.listAvailableDates, src/js/drive.js lines 198-226, with           *)
(* listJsonFiles, lines 183-192.  File names are sequences of characters.  *)

DotJson == <<".", "j", "s", "o", "n">>

\* the names the role folders may hold: daily documents, a weekly and a
\* monthly one, and a copy a desktop program left behind
Daily14 == <<"2", "0", "2", "4", "-", "0", "3", "-", "1", "4">> \o DotJson
Daily10 == <<"2", "0", "2", "4", "-", "0", "3", "-", "1", "0">> \o DotJson
Daily16 == <<"2", "0", "2", "4", "-", "0", "3", "-", "1", "6">> \o DotJson
Weekly11 == <<"2", "0", "2", "4", "-", "0", "3", "-", "1", "1", "_", "w", "e", "e", "k", "l", "y">> \o DotJson
Monthly01 == <<"2", "0", "2", "4", "-", "0", "3", "-", "0", "1", "_", "m", "o", "n", "t", "h", "l", "y">> \o DotJson
Backup12 == <<"2", "0", "2", "4", "-", "0", "3", "-", "1", "2">> \o DotJson \o <<".", "b", "a", "k">>
Notes == <<"n", "o", "t", "a", "s", ".", "t", "x", "t">>

\* what a role folder may hold
FolderListings ==
    { {}, {Daily14, Notes}, {Daily10, Daily14, Weekly11},
      {Daily16, Monthly01, Backup12} }

\* the listings that fail: none, or that of one role
FailingSets == {{}} \cup {{r} : r \in RoleSet}

\* the query of line 187, name contains '.json'
containsDotJson(name) ==
    \E i \in 1..Len(name) :
        /\ i + Len(DotJson) - 1 <= Len(name)
        /\ SubSeq(name, i, i + Len(DotJson) - 1) = DotJson

\* listJsonFiles(folderId), lines 183-192, once its search has answered:
\* nothing without a folder id, otherwise the files the query selects
listJsonFiles(role) ==
    IF folderCache[role] = NoId THEN {}
    ELSE {name \in roleFiles[role] : containsDotJson(name)}

\* the regular expression of line 217, /^(\d{4}-\d{2}-\d{2})\.json$/
isDigit(c) == \E i \in 1..10 : DigitChars[i] = c
dailyMatch(name) ==
    /\ Len(name) = 15
    /\ \A i \in {1, 2, 3, 4, 6, 7, 9, 10} : isDigit(name[i])
    /\ name[5] = "-" /\ name[8] = "-"
    /\ SubSeq(name, 11, 15) = DotJson

\* the UTF-16 code unit of a character of a date, by which sort() compares
codeUnit(c) == IF c = "-" THEN 45 ELSE 48 + DigitVal(c)

\* a < b as sort() without a comparator orders strings, line 224
RECURSIVE sortsBefore(_, _)
sortsBefore(a, b) ==
    IF Len(b) = 0 THEN FALSE
    ELSE IF Len(a) = 0 THEN TRUE
    ELSE IF a[1] # b[1] THEN codeUnit(a[1]) < codeUnit(b[1])
    ELSE sortsBefore(Tail(a), Tail(b))

\* Array.from(dates).sort(), ascending
RECURSIVE sortAscending(_)
sortAscending(dates) ==
    IF dates = {} THEN <<>>
    ELSE LET first == CHOOSE d \in dates :
                          \A e \in dates \ {d} : sortsBefore(d, e) IN
         <<first>> \o sortAscending(dates \ {first})

reverse(seq) == [i \in 1..Len(seq) |-> seq[Len(seq) + 1 - i]]

\* lines 211-224 on the files the four listings returned: the Set of the
\* captured dates of the daily names, sorted and reversed
datesOfFiles(names) ==
    reverse(sortAscending({SubSeq(name, 1, 10) : name \in {n \in names : dailyMatch(n)}}))

NoListing == [pc |-> "idle", dates |-> <<>>]

\* the folders, the cache and the requests that fail when the function is
\* called
DatesInit ==
    /\ \E cached \in SUBSET RoleSet :
         folderCache = [k \in CacheKeys |->
             IF k \in cached \cup {"store"} THEN FolderId(k) ELSE NoId]
    /\ roleFiles \in [RoleSet -> FolderListings]
    /\ failing \in FailingSets
    /\ listed = NoListing

\* listAvailableDates(storeName) is called, lines 198-211: the four
\* listings are started, those of the cached roles with a request
listAvailableDates ==
    /\ listed.pc = "idle"
    /\ listed' = [listed EXCEPT !.pc = "awaiting"]
    /\ UNCHANGED <<folderCache, roleFiles, failing>>

\* the settling that leaves the sorted dates as sort() returned them
ListingsSettleAscending ==
    /\ listed.pc = "awaiting"
    /\ IF \E r \in failing : folderCache[r] # NoId
       THEN listed' = [pc |-> "threw", dates |-> <<>>]
       ELSE listed' = [pc |-> "returned",
                       dates |-> sortAscending(
                           {SubSeq(name, 1, 10) :
                               name \in {n \in UNION {listJsonFiles(r) : r \in RoleSet} :
                                            dailyMatch(n)}})]
    /\ UNCHANGED <<folderCache, roleFiles, failing>>
\* Promise.all settles, lines 206-224: a listing whose request failed
\* rejects it and the call throws; otherwise the dates are returned
ListingsSettle ==
    /\ listed.pc = "awaiting"
    /\ IF \E r \in failing : folderCache[r] # NoId
       THEN listed' = [pc |-> "threw", dates |-> <<>>]
       ELSE listed' = [pc |-> "returned",
                       dates |-> datesOfFiles(UNION {listJsonFiles(r) : r \in RoleSet})]
    /\ UNCHANGED <<folderCache, roleFiles, failing>>

-----------------------------------------------------------------------------
(* The Inventario tab and listAvailableDates while they are not under      *)
(* check                                                                   *)

TabIdle ==
    /\ mrPc = "idle"
    /\ mrBefore = <<>>
    /\ li = [s \in StoreNames |-> LiIdle]

DatesIdle ==
    /\ roleFiles = <<>>
    /\ failing = {}
    /\ listed = NoListing

-----------------------------------------------------------------------------
(* Specifications                                                          *)

\* the components that only the specifications of their own claims move
RestIdle ==
    LoggedIn /\ InventarioIdle /\ RaceIdle /\ ResolveIdle /\ AppIdle /\ StatsIdle
        /\ TabIdle /\ DatesIdle

DateNext ==
    DeriveFilenames
        /\ UNCHANGED <<mergeVars, ledgerVars, authVars, inventarioVars, raceVars,
                        resolveVars, appVars, statsVars, tabVars,
                datesVars>>

InitDate == DateInit /\ CacheEmpty /\ MergeIdle /\ LedgerIdle /\ RestIdle

SpecDate == InitDate /\ [][DateNext]_vars

\* what a step of the locator leaves alone
MergeFrame ==
    UNCHANGED <<dateVars, ledgerVars, authVars, inventarioVars, raceVars,
                resolveVars, appVars, statsVars, tabVars,
                datesVars>>

MergeNext ==
    \/ \E d \in CallDates : GcCall(d) /\ MergeFrame
    \/ GcLocate /\ MergeFrame
    \/ GcLocateFail /\ MergeFrame
    \/ \E k \in 1..Len(results) : GcDownloadOk(k) /\ MergeFrame
    \/ \E k \in 1..Len(results) : GcDownloadFail(k) /\ MergeFrame
    \/ GcMerge /\ MergeFrame

InitMerge == MergeInit /\ DateIdle /\ LedgerIdle /\ RestIdle

SpecMerge == InitMerge /\ [][MergeNext]_vars

\* what a step of the ledger editor leaves alone
LedgerFrame ==
    UNCHANGED <<dateVars, remoteFiles, gcPc, gcDate, allFiles, results,
                lastSettled, gcResult, authVars, inventarioVars, raceVars,
                resolveVars, appVars, statsVars, tabVars,
                datesVars>>

LedgerNext ==
    \/ \E k \in LedgerKeys : RdCall(k) /\ LedgerFrame
    \/ RdFindFolder /\ LedgerFrame
    \/ RdCreate /\ LedgerFrame
    \/ RdSearch /\ LedgerFrame
    \/ RdDownload /\ LedgerFrame
    \/ RdUpload /\ LedgerFrame
    \/ RdRequestFails /\ LedgerFrame

InitLedger == LedgerInit /\ DateIdle /\ MergeIdle /\ RestIdle

SpecLedger == InitLedger /\ [][LedgerNext]_vars

\* what a step of marcarTodosRevisados leaves alone
BatchFrame ==
    UNCHANGED <<dateVars, remoteFiles, gcPc, gcDate, allFiles, results,
                lastSettled, gcResult, authVars, raceVars, resolveVars,
                appVars, statsVars, tabVars,
                datesVars>>

BatchNext ==
    \/ \E keys \in Batches : MtCall(keys) /\ BatchFrame
    \/ MtCycleEnd /\ BatchFrame
    \/ RdFindFolder /\ LedgerFrame
    \/ RdCreate /\ LedgerFrame
    \/ RdSearch /\ LedgerFrame
    \/ RdDownload /\ LedgerFrame
    \/ RdUpload /\ LedgerFrame
    \/ RdRequestFails /\ LedgerFrame

InitBatch ==
    BatchInit /\ DateIdle /\ MergeIdle /\ LoggedIn /\ RaceIdle /\ ResolveIdle
        /\ AppIdle /\ StatsIdle
        /\ TabIdle /\ DatesIdle

SpecBatch == InitBatch /\ [][BatchNext]_vars

\* what a step of marcarRevisado leaves alone
MarkFrame ==
    UNCHANGED <<dateVars, remoteFiles, gcPc, gcDate, allFiles, results,
                lastSettled, gcResult, authVars, mtPc, itemsToMark,
                removedCount, mtOutcomes, mtBefore, raceVars, resolveVars,
                appVars, statsVars, datesVars, li>>

\* what a step of the removeDiscrepancia it awaits leaves alone
MarkLedgerFrame == LedgerFrame /\ UNCHANGED tabVars

\* one OK click on a row of the table, after loadInventario or before any
MarkNext ==
    \/ \E k \in LedgerKeys : MrCall(k) /\ MarkFrame
    \/ MrEnd /\ MarkFrame
    \/ RdFindFolder /\ MarkLedgerFrame
    \/ RdCreate /\ MarkLedgerFrame
    \/ RdSearch /\ MarkLedgerFrame
    \/ RdDownload /\ MarkLedgerFrame
    \/ RdUpload /\ MarkLedgerFrame
    \/ RdRequestFails /\ MarkLedgerFrame

SpecMark == InitBatch /\ [][MarkNext]_vars

\* the state in which the Inventario tab is opened: the store folders of
\* both stores are cached (selectStore awaited getStoreFolders), nothing is
\* loaded yet
LoadInit ==
    /\ \E folderExists \in BOOLEAN, folderCached \in BOOLEAN,
          surCached \in BOOLEAN, fileExists \in BOOLEAN :
         /\ folderCached => folderExists
         /\ fileExists => folderExists
         /\ folderCache = [k \in CacheKeys |->
                IF k = Slot("store", TheStore) THEN StoreId
                ELSE IF k = Slot("store", OtherStore) THEN FolderId("store_sur")
                ELSE IF k = Slot("inventario", TheStore) /\ folderCached
                THEN InventarioId
                ELSE IF k = Slot("inventario", OtherStore) /\ surCached
                THEN SurInventarioId
                ELSE NoId]
         /\ inventarioFolders = IF folderExists THEN {InventarioId} ELSE {}
         /\ IF fileExists
            THEN \E c \in BatchLedgers :
                    ledger = [exists |-> TRUE, folder |-> InventarioId, content |-> c]
            ELSE ledger = NoLedger
    /\ currentStore = NoStore
    /\ items = <<>>
    /\ rdPc = "idle"
    /\ rdKey = NoText
    /\ inventarioId = NoId
    /\ csvContent = NoText
    /\ newContent = NoText
    /\ rdOutcome = "none"
    /\ rdError = ""
    /\ nDownloads = 0
    /\ nUploads = 0
    /\ ledgerBefore = NoLedger
    /\ prevCall = NoCall
    /\ unauthSent = {}
    /\ mtPc = "idle"
    /\ itemsToMark = <<>>
    /\ removedCount = 0
    /\ mtOutcomes = <<>>
    /\ mtBefore = [ledger |-> NoLedger, items |-> <<>>]

InitLoad ==
    LoadInit /\ DateIdle /\ MergeIdle /\ LoggedIn /\ RaceIdle /\ ResolveIdle
        /\ AppIdle /\ StatsIdle /\ TabIdle /\ DatesIdle

\* what a step of loadInventario leaves alone
LoadFrame ==
    UNCHANGED <<dateVars, remoteFiles, gcPc, gcDate, allFiles, results,
                lastSettled, gcResult, authVars, rdPc, rdKey, inventarioId,
                csvContent, newContent, rdOutcome, rdError, nDownloads,
                nUploads, ledgerBefore, prevCall, unauthSent, mtPc,
                itemsToMark, removedCount, mtOutcomes, mtBefore, raceVars,
                resolveVars, appVars, statsVars, datesVars, mrPc, mrBefore>>

\* the Inventario tab opened for one store and for the other, the loads
\* overlapping in any way
LoadNext ==
    \/ \E s \in StoreNames : LiCall(s) /\ LoadFrame
    \/ \E s \in StoreNames : LiFindFolder(s) /\ LoadFrame
    \/ \E s \in StoreNames : LiCreate(s) /\ LoadFrame
    \/ \E s \in StoreNames : LiSearch(s) /\ LoadFrame
    \/ \E s \in StoreNames : LiDownload(s) /\ LoadFrame
    \/ \E s \in StoreNames : LiFail(s) /\ LoadFrame

SpecLoad == InitLoad /\ [][LoadNext]_vars

\* what a step of listAvailableDates leaves alone
DatesFrame ==
    UNCHANGED <<dateVars, remoteFiles, gcPc, gcDate, allFiles, results,
                lastSettled, gcResult, ledgerVars, authVars, inventarioVars,
                raceVars, resolveVars, appVars, statsVars, tabVars>>

DatesNext ==
    \/ listAvailableDates /\ DatesFrame
    \/ ListingsSettle /\ DatesFrame

InitDates ==
    DatesInit /\ DateIdle /\ MergeIdle /\ LedgerIdle /\ LoggedIn
        /\ InventarioIdle /\ RaceIdle /\ ResolveIdle /\ AppIdle /\ StatsIdle
        /\ TabIdle

SpecDates == InitDates /\ [][DatesNext]_vars

\* a load of the first store and a removeDiscrepancia for it, overlapping in
\* any way: both start with findOrCreateInventarioFolder
FolderNext ==
    \/ \E k \in LedgerKeys : RdCall(k) /\ LedgerFrame
    \/ RdFindFolder /\ LedgerFrame
    \/ RdCreate /\ LedgerFrame
    \/ RdSearch /\ LedgerFrame
    \/ RdDownload /\ LedgerFrame
    \/ RdUpload /\ LedgerFrame
    \/ RdRequestFails /\ LedgerFrame
    \/ LiCall(TheStore) /\ LoadFrame
    \/ LiFindFolder(TheStore) /\ LoadFrame
    \/ LiCreate(TheStore) /\ LoadFrame
    \/ LiSearch(TheStore) /\ LoadFrame
    \/ LiDownload(TheStore) /\ LoadFrame
    \/ LiFail(TheStore) /\ LoadFrame

SpecFolder == InitLoad /\ [][FolderNext]_vars

\* the locals of the first call and the folders
rdLocals ==
    <<inventarioFolders, rdPc, rdKey, inventarioId, csvContent, newContent,
      rdOutcome, rdError, nDownloads, nUploads, ledgerBefore, prevCall,
      unauthSent>>

\* what a step of another writer leaves alone
RaceFrame ==
    UNCHANGED <<dateVars, mergeVars, authVars, inventarioVars, rdLocals,
                resolveVars, appVars, statsVars, tabVars,
                datesVars>>

\* what the upload of the first call leaves alone, the record of the last
\* writer apart
UploadFrame ==
    UNCHANGED <<dateVars, remoteFiles, gcPc, gcDate, allFiles, results,
                lastSettled, gcResult, authVars, inventarioVars, other,
                editorAt, resolveVars, appVars, statsVars, tabVars,
                datesVars>>

\* one removeDiscrepancia call, a second one that may overlap it, and the
\* inventory program
RaceNext ==
    \/ \E k \in LedgerKeys : rdPc = "idle" /\ RdCall(k) /\ LedgerFrame
    \/ RdSearch /\ LedgerFrame
    \/ RdDownload /\ LedgerFrame
    \/ RdUpload /\ lastWriter' = "rd" /\ UploadFrame
    \/ RdRequestFails /\ LedgerFrame
    \/ \E k \in LedgerKeys : OtherCall(k) /\ RaceFrame
    \/ OtherSearch /\ RaceFrame
    \/ OtherDownload /\ RaceFrame
    \/ OtherUpload /\ RaceFrame
    \/ OtherRequestFails /\ RaceFrame
    \/ EditorReplaces /\ RaceFrame

InitRace ==
    RaceInit /\ DateIdle /\ MergeIdle /\ LoggedIn /\ InventarioIdle
        /\ ResolveIdle /\ AppIdle /\ StatsIdle
        /\ TabIdle /\ DatesIdle

SpecRace == InitRace /\ [][RaceNext]_vars

\* what a logout or login leaves alone
AuthFrame ==
    UNCHANGED <<dateVars, remoteFiles, gcPc, gcDate, allFiles, results,
                lastSettled, gcResult, ledgerVars, inventarioVars, raceVars,
                resolveVars, appVars, statsVars, tabVars,
                datesVars>>

\* the ledger editor in a session the user may end and start again while a
\* call is suspended
AuthNext ==
    \/ \E k \in LedgerKeys : RdCall(k) /\ LedgerFrame
    \/ RdFindFolder /\ LedgerFrame
    \/ RdCreate /\ LedgerFrame
    \/ RdSearch /\ LedgerFrame
    \/ RdDownload /\ LedgerFrame
    \/ RdUpload /\ LedgerFrame
    \/ RdRequestFails /\ LedgerFrame
    \/ Logout /\ AuthFrame
    \/ Login /\ AuthFrame

InitAuth == LedgerInit /\ DateIdle /\ MergeIdle /\ RestIdle

SpecAuth == InitAuth /\ [][AuthNext]_vars

\* what a step of the resolver leaves alone
ResolveFrame ==
    UNCHANGED <<dateVars, remoteFiles, gcPc, gcDate, allFiles, results,
                lastSettled, gcResult, ledgerVars, authVars, inventarioVars,
                raceVars, appVars, statsVars, tabVars,
                datesVars>>

\* the resolver calls of one session, one at a time, over a remote tree that
\* changes between them
ResolveNext ==
    \/ FsCall /\ ResolveFrame
    \/ FsRoot /\ ResolveFrame
    \/ FsStores /\ ResolveFrame
    \/ FsDashboard /\ ResolveFrame
    \/ FsFail /\ ResolveFrame
    \/ \E n \in StoreNames : SfCall(n) /\ ResolveFrame
    \/ SfToday /\ ResolveFrame
    \/ SfHistory /\ ResolveFrame
    \/ SfAdmin /\ ResolveFrame
    \/ SfAdminToday /\ ResolveFrame
    \/ SfAdminHistory /\ ResolveFrame
    \/ SfFail /\ ResolveFrame
    \/ \E n \in StoreNames : FiCall(n) /\ ResolveFrame
    \/ FiSearch /\ ResolveFrame
    \/ FiFail /\ ResolveFrame
    \/ ClearCache /\ ResolveFrame
    \/ TreeChange /\ ResolveFrame

InitResolve ==
    ResolveInit /\ DateIdle /\ MergeIdle /\ LedgerIdle /\ LoggedIn
        /\ InventarioIdle /\ RaceIdle /\ AppIdle /\ StatsIdle
        /\ TabIdle /\ DatesIdle

SpecResolve == InitResolve /\ [][ResolveNext]_vars


\* what a step of the application leaves alone
AppFrame ==
    UNCHANGED <<dateVars, mergeVars, ledgerVars, authVars, inventarioVars,
                raceVars, resolveVars, statsVars, tabVars,
                datesVars>>

\* the user selects stores and dates, the timer ticks and the requests
\* answer in any order
AppNext ==
    \/ \E n \in StoreNames : SelectStore(n) /\ AppFrame
    \/ \E a \in {"today", "other", "error"} : StoreLoaded(a) /\ AppFrame
    \/ \E d \in Dates : SelectDate(d) /\ AppFrame
    \/ \E r \in Requests, a \in {"data", "null", "error"} :
          LoadDone(r, a) /\ AppFrame
    \/ Tick /\ AppFrame
    \/ \E r \in Requests, a \in {"data", "null", "error"} :
          RunDone(r, a) /\ AppFrame

InitApp ==
    CacheEmpty /\ DateIdle /\ MergeIdle /\ LedgerIdle /\ RestIdle

SpecApp == InitApp /\ [][AppNext]_vars

\* what a step of a session leaves alone
SessionFrame ==
    UNCHANGED <<dateVars, remoteFiles, gcPc, gcDate, allFiles, results,
                lastSettled, gcResult, ledgerVars, inventarioVars, raceVars,
                statsVars, tabVars,
                datesVars>>

\* what a step of the resolver leaves alone in a session
SessionResolveFrame == SessionFrame /\ UNCHANGED <<authVars, appVars>>

\* the resolver calls of a user who logs out and in again while they run
SessionNext ==
    \/ FsCall /\ SessionResolveFrame
    \/ FsRoot /\ SessionResolveFrame
    \/ FsStores /\ SessionResolveFrame
    \/ FsDashboard /\ SessionResolveFrame
    \/ FsFail /\ SessionResolveFrame
    \/ \E n \in StoreNames : SfCall(n) /\ SessionResolveFrame
    \/ SfToday /\ SessionResolveFrame
    \/ SfHistory /\ SessionResolveFrame
    \/ SfAdmin /\ SessionResolveFrame
    \/ SfAdminToday /\ SessionResolveFrame
    \/ SfAdminHistory /\ SessionResolveFrame
    \/ SfFail /\ SessionResolveFrame
    \/ \E n \in StoreNames : FiCall(n) /\ SessionResolveFrame
    \/ FiSearch /\ SessionResolveFrame
    \/ FiFail /\ SessionResolveFrame
    \/ handleLogout /\ SessionFrame
    \/ Login /\ UNCHANGED <<resolveVars, appVars>> /\ SessionFrame

InitSession ==
    ResolveInit /\ DateIdle /\ MergeIdle /\ LedgerIdle /\ LoggedIn
        /\ InventarioIdle /\ RaceIdle /\ AppIdle /\ StatsIdle
        /\ TabIdle /\ DatesIdle

SpecSession == InitSession /\ [][SessionNext]_vars

\* the user selects stores and dates and logs out while requests are in
\* flight; the requests answer in any order
LogoutNext ==
    \/ \E n \in StoreNames : SelectStore(n) /\ AppFrame
    \/ \E a \in {"today", "other", "error"} : StoreLoaded(a) /\ AppFrame
    \/ \E d \in Dates : SelectDate(d) /\ AppFrame
    \/ \E r \in Requests, a \in {"data", "null", "error"} :
          LoadDone(r, a) /\ AppFrame
    \/ handleLogout /\ SessionFrame

SpecLogout == InitApp /\ [][LogoutNext]_vars

\* what a step of parse leaves alone
StatsFrame ==
    UNCHANGED <<dateVars, mergeVars, ledgerVars, authVars, inventarioVars,
                raceVars, resolveVars, appVars, tabVars, datesVars>>

StatsNext == Parse /\ StatsFrame

InitStats ==
    StatsInit /\ CacheEmpty /\ DateIdle /\ MergeIdle /\ LedgerIdle /\ LoggedIn
        /\ InventarioIdle /\ RaceIdle /\ ResolveIdle /\ AppIdle
        /\ TabIdle /\ DatesIdle

SpecStats == InitStats /\ [][StatsNext]_vars

-----------------------------------------------------------------------------
(* Filename derivation: claims                                             *)

\* the input date in the reference calendar
InputDay == Calendar[dayIdx + 1]

\* C5: for every date d, getWeekStart(d) is a Monday w with
\* d - 6 days <= w <= d; for a Sunday it is the day 6 days earlier, never the
\* Sunday itself, and 2024-03-10 gives 2024-03-04.  (Day 0 of the reference
\* calendar is a Monday, so the Mondays are the days whose index is a
\* multiple of 7.)
WeekStartIsMondayOfWeek ==
    fnPc = "derived" =>
        /\ \E m \in 0..dayIdx :
              /\ m >= dayIdx - 6
              /\ m % 7 = 0
              /\ weekStart = DateText(Calendar[m + 1])
        /\ (dayIdx % 7 = 6 => /\ weekStart = DateText(Calendar[dayIdx - 6 + 1])
                              /\ weekStart # dateStr)
        /\ (dateStr = DateText(<<2024, 3, 10>>)
               => weekStart = DateText(<<2024, 3, 4>>))

\* a Sunday whose week started in the previous year
WeekStartAcrossYears ==
    /\ fnPc = "derived"
    /\ dayIdx % 7 = 6
    /\ dateStr = DateText(<<2025, 1, 5>>)
    /\ weekStart = DateText(<<2024, 12, 30>>)

\* C6: for every date d, getMonthStart(d) has day 01 and the year and month
\* of d, and the daily, weekly and monthly filenames of d are pairwise
\* distinct.
MonthStartAndDistinctNames ==
    fnPc = "derived" =>
        /\ monthStart = DateText(<<InputDay[1], InputDay[2], 1>>)
        /\ SubSeq(monthStart, Len(monthStart) - 1, Len(monthStart)) = <<"0", "1">>
        /\ filenames[1] # filenames[2]
        /\ filenames[1] # filenames[3]
        /\ filenames[2] # filenames[3]

\* a Monday that is the first of its month: the three names carry one date
OneDateThreeNames ==
    /\ fnPc = "derived"
    /\ weekStart = dateStr
    /\ monthStart = dateStr
    /\ filenames[1] = dateStr \o JsonSuffix


-----------------------------------------------------------------------------
(* Document locator and merger: claims                                     *)

\* position of a file in the fixed order daily, weekly, monthly and, within
\* a class, Today, History, Admin/Today, Admin/History
ClassRank(name) ==
    IF name = "daily" THEN 0 ELSE IF name = "weekly" THEN 1 ELSE 2
FolderRank(folder) ==
    IF folder = FolderId("today") THEN 1
    ELSE IF folder = FolderId("history") THEN 2
    ELSE IF folder = FolderId("admin_today") THEN 3 ELSE 4
Rank(f) == 4 * ClassRank(f.name) + FolderRank(f.folder)

\* the files of the remote store that lie in a folder the cache names
LocatedFiles ==
    {f \in remoteFiles : \E r \in RoleSet : folderCache[r] = f.folder}

SettledAs(f, state) ==
    \E k \in 1..Len(allFiles) :
        /\ k <= Len(results)
        /\ allFiles[k].id = f.id
        /\ results[k].state = state

\* the downloaded documents that hold a checklist of a name
Sources(n) ==
    {f \in LocatedFiles : /\ SettledAs(f, "ok")
                          /\ f.doc.hasChecklists
                          /\ n \in DOMAIN f.doc.checklists}

\* the one processed last
LastSource(n) ==
    CHOOSE f \in Sources(n) : \A g \in Sources(n) : Rank(g) <= Rank(f)

\* C1: in the bundle getChecklistForDate returns, a checklist name holds
\* exactly the checklist object of the document processed last in the fixed
\* order among the downloaded documents that contain the name (no union of
\* items), whatever the order in which the downloads completed; a name no
\* downloaded document contains is not in the bundle.
LastProcessedWins ==
    gcPc = "returned" =>
        \A n \in ChecklistNames :
            IF Sources(n) = {}
            THEN n \notin DOMAIN gcResult.checklists
            ELSE /\ n \in DOMAIN gcResult.checklists
                 /\ gcResult.checklists[n].items
                        = LastSource(n).doc.checklists[n].items

\* two downloaded documents hold the name, and the download that completed
\* last is not the one of the document processed last
LastProcessedArrivedFirst ==
    /\ gcPc = "returned"
    /\ gcResult.kind = "bundle"
    /\ \E n \in ChecklistNames :
          \E g \in Sources(n) :
              /\ g # LastSource(n)
              /\ allFiles[lastSettled].id = g.id

TodayDaily      == <<"today", "daily">>
AdminTodayDaily == <<"admin_today", "daily">>

\* C2: a located file is tagged admin exactly when it lies in the
\* Admin/Today or Admin/History folder; the _isAdmin tag of a name in the
\* bundle is the tag of the last-processed document that contains it; when
\* the daily files of Today and of Admin/Today both hold "1D Apertura", the
\* bundle's "1D Apertura" is the Admin/Today version, tagged admin.
ProvenanceOfLastProcessed ==
    /\ \A k \in 1..Len(allFiles) :
          \A f \in remoteFiles :
              f.id = allFiles[k].id =>
                  (allFiles[k].isAdmin <=> f.folder \in AdminFolders)
    /\ gcPc = "returned" =>
          \A n \in DOMAIN gcResult.checklists :
              gcResult.checklists[n]._isAdmin
                  = (LastSource(n).folder \in AdminFolders)
    /\ (/\ gcPc = "returned"
        /\ {f.id : f \in Sources("1D Apertura")} = {TodayDaily, AdminTodayDaily})
         => /\ gcResult.kind = "bundle"
            /\ gcResult.checklists["1D Apertura"]
                  = [items |-> ChecklistObject("admin_today", "daily",
                                               "1D Apertura").items,
                     _isAdmin |-> TRUE]

\* the scenario: Today and Admin/Today hold the daily file, both downloaded
TodayAndAdminTodayMerged ==
    /\ gcPc = "returned"
    /\ {f.id : f \in Sources("1D Apertura")} = {TodayDaily, AdminTodayDaily}
    /\ gcResult.checklists["1D Apertura"]._isAdmin

\* what the call returns on a store and with downloads that all succeed
ResultOn(files) ==
    LET found == locateAll(folderCache, files)
        res   == [k \in 1..Len(found) |->
                     Downloaded(downloadFile(files, found[k].id),
                                found[k].isAdmin)]
    IN  mergeResults(gcDate, res)

\* C3: a failed download does not fail the call; every other located file is
\* downloaded and merged, and the result is the one the call gives on the
\* store without the files whose download failed.
FailedDownloadIsAbsentFile ==
    /\ gcPc = "failed" => Len(results) = 0
    /\ gcPc = "returned" =>
          /\ \A f \in LocatedFiles : SettledAs(f, "ok") \/ SettledAs(f, "null")
          /\ gcResult = ResultOn({f \in remoteFiles : ~SettledAs(f, "null")})

\* a bundle returned although a download failed
BundleDespiteFailedDownload ==
    /\ gcPc = "returned"
    /\ gcResult.kind = "bundle"
    /\ \E f \in LocatedFiles : SettledAs(f, "null")

\* the checklist entries the downloaded documents contribute
ContributedNames ==
    UNION {DOMAIN f.doc.checklists :
           f \in {g \in LocatedFiles : SettledAs(g, "ok") /\ g.doc.hasChecklists}}

\* C4: a call that returns gives null exactly when no candidate file was
\* located or the downloaded documents contribute no checklist entry (also
\* when every download failed); otherwise it gives a bundle with a non-empty
\* checklists mapping and the requested date.  The call throws only when a
\* search of the locate step failed.
NullExactlyWhenNothingToShow ==
    /\ gcPc = "returned" =>
          /\ gcResult.kind \in {"null", "bundle"}
          /\ gcResult.kind = "null"
                <=> (LocatedFiles = {} \/ ContributedNames = {})
          /\ gcResult.kind = "bundle" =>
                /\ DOMAIN gcResult.checklists # {}
                /\ gcResult.date = gcDate
    /\ gcPc = "failed" => gcResult.kind = "error" /\ Len(results) = 0

\* null although files were located: every download failed
NullWhenEveryDownloadFailed ==
    /\ gcPc = "returned"
    /\ gcResult.kind = "null"
    /\ LocatedFiles # {}
    /\ \A f \in LocatedFiles : SettledAs(f, "null")


-----------------------------------------------------------------------------
(* Discrepancy ledger editor: claims.  The rows of a ledger are the rows   *)
(* Inventario.parseCSV reads from it; the Articulo value of a row is its   *)
(* trimmed cell in the Articulo column.                                    *)

Rows(l) == IF l.exists THEN parseCSV(text(l.content)) ELSE <<>>

HeaderNames(l) == headersOf(split(trim(text(l.content)), LF))

HasKeyColumn(l) ==
    l.exists /\ \E i \in 1..Len(HeaderNames(l)) : HeaderNames(l)[i] = Articulo

RowsWithKey(l, key) ==
    {i \in 1..Len(Rows(l)) : Rows(l)[i][Articulo] = key}

\* the errors of a request that failed
RequestErrors ==
    {"API request failed", "Failed to create Inventario folder",
     "Failed to download discrepancias.csv", "Failed to update discrepancias.csv"}

\* the call returned true, or threw only because one of its requests failed
SucceedsUnlessRequestFailed ==
    rdOutcome = "ok" \/ (rdOutcome = "error" /\ rdError \in RequestErrors)

\* C7: on a ledger with exactly one row of the key, removeDiscrepancia
\* succeeds and leaves exactly one data row fewer and no row of the key; the
\* same call made again succeeds and leaves the ledger as it was.
RemoveOnceThenNoOp ==
    /\ (/\ rdPc = "done"
        /\ HasKeyColumn(ledgerBefore)
        /\ Cardinality(RowsWithKey(ledgerBefore, rdKey)) = 1)
         => /\ SucceedsUnlessRequestFailed
            /\ rdOutcome = "ok" =>
                  /\ Len(Rows(ledger)) = Len(Rows(ledgerBefore)) - 1
                  /\ RowsWithKey(ledger, rdKey) = {}
    /\ (/\ rdPc = "done"
        /\ prevCall.outcome = "ok"
        /\ prevCall.key = rdKey
        /\ HasKeyColumn(prevCall.before)
        /\ Cardinality(RowsWithKey(prevCall.before, rdKey)) = 1)
         => /\ SucceedsUnlessRequestFailed
            /\ rdOutcome = "ok" => ledger = ledgerBefore

\* the second of two successful calls for a key the ledger held
RemovedTwice ==
    /\ rdPc = "done"
    /\ rdOutcome = "ok"
    /\ prevCall.outcome = "ok"
    /\ prevCall.key = rdKey
    /\ HasKeyColumn(prevCall.before)
    /\ Cardinality(RowsWithKey(prevCall.before, rdKey)) = 1
    /\ Len(Rows(prevCall.after)) = Len(Rows(prevCall.before)) - 1
    /\ ledger = prevCall.after

\* C8: with a key no row of the ledger carries, removeDiscrepancia succeeds
\* and the header names and the data rows afterwards are the ones before, in
\* the same order (the text may differ in byte-order mark and line form).
\* The ledger is one with an Articulo column.
AbsentKeyKeepsRows ==
    (/\ rdPc = "done"
     /\ HasKeyColumn(ledgerBefore)
     /\ RowsWithKey(ledgerBefore, rdKey) = {})
      => /\ SucceedsUnlessRequestFailed
         /\ rdOutcome = "ok" =>
               /\ ledger.exists
               /\ HeaderNames(ledger) = HeaderNames(ledgerBefore)
               /\ Rows(ledger) = Rows(ledgerBefore)

\* an absent key, a ledger with rows, and an upload that changed the text
AbsentKeyRewritten ==
    /\ rdPc = "done"
    /\ rdOutcome = "ok"
    /\ HasKeyColumn(ledgerBefore)
    /\ RowsWithKey(ledgerBefore, rdKey) = {}
    /\ Len(Rows(ledgerBefore)) > 0
    /\ nUploads = 1
    /\ ledger.content # ledgerBefore.content

\* the rows of a ledger apart from those of a key, in order
RowsWithout(l, key) ==
    LET Other(row) == row[Articulo] # key IN SelectSeq(Rows(l), Other)

ScenarioLedger ==
    HeaderKeyFirst \o <<LF>> \o RowLine(HeaderKeyFirst, Key100, FALSE)
                   \o <<LF>> \o RowLine(HeaderKeyFirst, Key101, FALSE)

ScenarioResult ==
    <<BOM>> \o HeaderKeyFirst \o <<LF>> \o RowLine(HeaderKeyFirst, Key101, FALSE)

\* C9: a successful removeDiscrepancia keeps the header and every data row
\* whose trimmed Articulo value differs from the key, in their order; the
\* content it uploads has no blank line; on the header
\* Articulo,Tienda,Diferencia with rows 100,53,-2 and 101,53,3, removing 100
\* leaves the header and the row 101,53,3.
KeepsEveryOtherRow ==
    (rdPc = "done" /\ rdOutcome = "ok" /\ ledgerBefore.exists) =>
        /\ Rows(ledger) = RowsWithout(ledgerBefore, rdKey)
        /\ HeaderNames(ledger) = HeaderNames(ledgerBefore)
        /\ nUploads = 1 =>
              /\ ledger.content = newContent
              /\ LET lines == split(text(ledger.content), LF)
                 IN  \A i \in 1..Len(lines) : Len(trim(lines[i])) > 0
        /\ (ledgerBefore.content = ScenarioLedger /\ rdKey = Key100)
              => ledger.content = ScenarioResult

\* the scenario of the claim, after the call
ScenarioRemoved ==
    /\ rdPc = "done"
    /\ rdOutcome = "ok"
    /\ ledgerBefore.content = ScenarioLedger
    /\ rdKey = Key100
    /\ ledger.content = ScenarioResult

\* C10: when the Inventario folder holds no discrepancias.csv, the call
\* issues no download and no upload, and once its search has responded it
\* returns true: it throws only when the folder resolution or the search
\* itself failed.
NoFileNoTransfer ==
    ~ledgerBefore.exists =>
        /\ nDownloads = 0
        /\ nUploads = 0
        /\ rdOutcome = "error" =>
              rdError \in {"Store folder not found", "API request failed",
                           "Failed to create Inventario folder"}

\* success on a resolved folder without the file
NoFileSuccess ==
    /\ rdPc = "done"
    /\ rdOutcome = "ok"
    /\ ~ledgerBefore.exists
    /\ inventarioId # NoId
    /\ nDownloads = 0
    /\ nUploads = 0

\* the error of line 543
MalformedLedger == "Articulo column not found in discrepancias.csv"

\* the lines removeDiscrepancia splits the downloaded text of a ledger into
LinesOf(l) == split(trim(text(l.content)), LF)

\* the current call received the text of the ledger it found
LedgerDownloaded ==
    /\ rdPc = "done"
    /\ ledgerBefore.exists
    /\ nDownloads = 1
    /\ ~(rdOutcome = "error" /\ rdError \in RequestErrors)

\* C11 as stated: whenever the header of the downloaded ledger has no column
\* named exactly Articulo, removeDiscrepancia fails with the MalformedLedger
\* error and issues no upload, the stored ledger staying as it was, for every
\* ledger content, a ledger of the header line only included.
MalformedLedgerAlwaysFatal ==
    (LedgerDownloaded /\ ~HasKeyColumn(ledgerBefore)) =>
        /\ rdOutcome = "error"
        /\ rdError = MalformedLedger
        /\ nUploads = 0
        /\ ledger = ledgerBefore

\* C11, amended: when the header of the downloaded ledger has no column named
\* exactly Articulo, removeDiscrepancia issues no upload and the stored ledger
\* stays as it was; it fails with the MalformedLedger error when the trimmed
\* text has at least one line after the header, and returns true when the
\* trimmed text is the header line only.
MalformedLedgerFatalWithRows ==
    (LedgerDownloaded /\ ~HasKeyColumn(ledgerBefore)) =>
        /\ nUploads = 0
        /\ ledger = ledgerBefore
        /\ IF Len(LinesOf(ledgerBefore)) >= 2
           THEN rdOutcome = "error" /\ rdError = MalformedLedger
           ELSE rdOutcome = "ok"

\* a ledger without the Articulo column and with a data row, rejected
MalformedLedgerRejected ==
    /\ LedgerDownloaded
    /\ ~HasKeyColumn(ledgerBefore)
    /\ Len(Rows(ledgerBefore)) >= 1
    /\ rdOutcome = "error"
    /\ rdError = MalformedLedger
    /\ ledger = ledgerBefore


-----------------------------------------------------------------------------
(* Batch removal: claims                                                   *)

\* the positions of the batch whose cycle has ended with success
SucceededAt == {i \in 1..Len(mtOutcomes) : mtOutcomes[i] = "ok"}

SucceededKeys == {itemsToMark[i] : i \in SucceededAt}

\* the rows of a ledger apart from those of a set of keys, in order
RowsWithoutKeys(l, keys) ==
    IF ~HasKeyColumn(l) THEN Rows(l)
    ELSE LET Other(row) == row[Articulo] \notin keys IN SelectSeq(Rows(l), Other)

\* the rows in memory apart from those of a set of keys, in order
ItemsWithoutKeys(rows, keys) ==
    LET Other(row) == ~(Articulo \in DOMAIN row /\ row[Articulo] \in keys)
    IN  SelectSeq(rows, Other)

\* C12: marcarTodosRevisados runs one removeDiscrepancia cycle per key, in
\* list order and one at a time; a failed cycle is caught and the later keys
\* still get their cycle; the count returned is the number of cycles that
\* succeeded, and afterwards the ledger and the items in memory are the ones
\* before without the rows of exactly the keys whose cycle succeeded.
BatchRemovesSucceededKeys ==
    /\ mtPc = "awaiting" =>
          /\ Len(mtOutcomes) < Len(itemsToMark)
          /\ rdPc # "idle"
          /\ rdKey = itemsToMark[Len(mtOutcomes) + 1]
    /\ mtPc = "failed" => currentStore = NoStore /\ ledger = mtBefore.ledger
    /\ mtPc \in {"awaiting", "returned"} =>
          /\ removedCount = Cardinality(SucceededAt)
          /\ items = ItemsWithoutKeys(mtBefore.items, SucceededKeys)
    /\ mtPc = "returned" =>
          /\ Len(mtOutcomes) = Len(itemsToMark)
          /\ Rows(ledger) = RowsWithoutKeys(mtBefore.ledger, SucceededKeys)
          /\ ledger.exists = mtBefore.ledger.exists

\* a batch of two keys the ledger held: the first cycle failed, the second
\* succeeded; the first key is still in the ledger and in memory
PartialBatch ==
    /\ mtPc = "returned"
    /\ mtOutcomes = <<"error", "ok">>
    /\ removedCount = 1
    /\ itemsToMark[1] # itemsToMark[2]
    /\ HasKeyColumn(mtBefore.ledger)
    /\ RowsWithKey(mtBefore.ledger, itemsToMark[2]) # {}
    /\ RowsWithKey(ledger, itemsToMark[1]) # {}
    /\ RowsWithKey(ledger, itemsToMark[2]) = {}
    /\ \E i \in 1..Len(items) : items[i][Articulo] = itemsToMark[1]
    /\ \A i \in 1..Len(items) : items[i][Articulo] # itemsToMark[2]

-----------------------------------------------------------------------------
(* Lost update: claims                                                     *)

\* a ledger holding a given text
LedgerOf(content) ==
    [exists |-> TRUE, folder |-> InventarioId, content |-> content]

\* the first call uploaded and returned true
RdUploaded == rdPc = "done" /\ rdOutcome = "ok" /\ nUploads = 1

\* the second call uploaded and returned true
OtherUploaded ==
    other.pc = "done" /\ other.outcome = "ok" /\ other.content # NoText

\* both calls downloaded the same text, which holds the keys of both
Overlapped ==
    /\ RdUploaded
    /\ OtherUploaded
    /\ other.csv = csvContent
    /\ rdKey # other.key
    /\ RowsWithKey(LedgerOf(csvContent), rdKey) # {}
    /\ RowsWithKey(LedgerOf(csvContent), other.key) # {}

\* C13: an upload replaces the file by what the call computed from its own
\* download, whatever was written to the file in between, and the call
\* returns true.  So a change the inventory program made between the
\* download and the upload is gone after the upload; and when two calls for
\* different keys of one ledger overlap (both download before either
\* uploads) and both return true, the ledger afterwards holds no row of the
\* key of the call that uploaded last and still holds the row of the other.
UploadOverwritesOtherWriters ==
    /\ (RdUploaded /\ lastWriter = "rd") =>
          /\ Rows(ledger) = RowsWithout(LedgerOf(csvContent), rdKey)
          /\ editorAt = "upload" => RowsWithKey(ledger, Key102) = {}
    /\ (Overlapped /\ lastWriter = "rd") =>
          /\ RowsWithKey(ledger, rdKey) = {}
          /\ RowsWithKey(ledger, other.key) # {}
    /\ (Overlapped /\ lastWriter = "other") =>
          /\ RowsWithKey(ledger, other.key) = {}
          /\ RowsWithKey(ledger, rdKey) # {}

\* two overlapping calls for two keys both returned true and the key of the
\* second is still in the ledger
BothSucceededOneKeyLeft ==
    /\ Overlapped
    /\ editorAt = "none"
    /\ lastWriter = "rd"
    /\ RowsWithKey(ledger, other.key) # {}

-----------------------------------------------------------------------------
(* Credential: claims                                                      *)

\* C14: no remote-store call made while Auth.getToken() returns no token
\* issues a network request (it fails with the Unauthenticated error
\* first), also when the token is cleared while removeDiscrepancia or its
\* findOrCreateInventarioFolder is suspended between two requests.
NoRequestWithoutToken == unauthSent = {}

-----------------------------------------------------------------------------
(* Folder resolver: claims                                                 *)

\* a candidate that has a Dashboard child
Provisioned(c) == Len(c.dashboard) > 0

\* the subfolders of the first marker folder of a tree
Subfolders(t) == ChildFolders(t, firstId(RootFolders(t)))

\* the stores of a tree: the subfolders of its first marker folder that have
\* a Dashboard child, in their order
StoresOf(t) ==
    LET sel == SelectSeq(Subfolders(t), Provisioned)
    IN  [i \in 1..Len(sel) |->
            [id |-> sel[i].id, name |-> sel[i].name,
             dashboardId |-> sel[i].dashboard[1]]]

\* the names of the subfolders without a Dashboard child
RejectedNames(t) ==
    {Subfolders(t)[i].name : i \in 1..Len(Subfolders(t))}
        \ {StoresOf(t)[i].name : i \in 1..Len(StoresOf(t))}

\* the step in which findStores returns
FsReturns == fs.pc \notin Rest /\ fs'.pc = "returned"

\* the step returns the stores of the tree and, when clearCache did not run
\* during the call, leaves their ids in the cache
ReturnsTheStores ==
    /\ fs'.stores = StoresOf(tree)
    /\ ~fs'.cleared =>
           \A i \in 1..Len(fs'.stores) :
               LET s == fs'.stores[i]
               IN  /\ folderCache'[Slot("store", s.name)] = s.id
                   /\ folderCache'[Slot("dashboard", s.name)] = s.dashboardId

\* C15 as stated: findStores returns exactly the subfolders of the root
\* marker folder that have a Dashboard child, and when it has returned the
\* cache holds a store id and a dashboard id for each returned store name
\* and for no rejected candidate
FindStoresCachesNoRejected ==
    [][FsReturns =>
           /\ ReturnsTheStores
           /\ ~fs'.cleared =>
                  \A n \in RejectedNames(tree) :
                      /\ folderCache'[Slot("store", n)] = NoId
                      /\ folderCache'[Slot("dashboard", n)] = NoId]_vars

\* C15, amended: findStores returns exactly the subfolders of the root
\* marker folder that have a Dashboard child; when it has returned, and
\* clearCache did not run during the call, the cache holds the store id and
\* the dashboard id of each returned store name, and findStores has written
\* no entry for a rejected candidate: such a name has the entries it had
\* before the call, or none
FindStoresWritesNoRejected ==
    [][FsReturns =>
           /\ ReturnsTheStores
           /\ \A n \in RejectedNames(tree) :
                  \A r \in {"store", "dashboard"} :
                      folderCache'[Slot(r, n)] \in
                          {fs'.before[Slot(r, n)], NoId}]_vars

\* findStores has returned without the second store, which it rejected, and
\* the cache still holds the ids an earlier round found for it
RejectedStoreStillCached ==
    /\ fs.pc = "returned"
    /\ ~fs.cleared
    /\ OtherStore \in RejectedNames(tree)
    /\ Len(fs.stores) = 1
    /\ folderCache[Slot("dashboard", OtherStore)] # NoId
    /\ folderCache[Slot("dashboard", TheStore)] # NoId

\* the step in which the search for the marker folder answers
RootAnswers ==
    fs.pc = "root" /\ fs'.pc # "root" /\ fs'.error # ApiRequestFailed

\* C16: findStores fails with RootFolderNotFound, without writing a cache
\* entry and without probing a store, when the search for the root marker
\* folder returns no folder; when it returns several, the first one is used
\* and no error is raised
RootFolderNotFoundOnlyWhenNone ==
    [][RootAnswers =>
           LET files == RootFolders(tree)
           IN  /\ Len(files) = 0 =>
                      /\ fs'.pc = "failed"
                      /\ fs'.error = RootFolderNotFound
                      /\ folderCache' = folderCache
                      /\ \A k \in CacheKeys :
                             folderCache'[k] \in {fs'.before[k], NoId}
                      /\ fs'.requests = 1
                      /\ fs'.candidates = <<>>
               /\ Len(files) > 0 =>
                      /\ fs'.pc = "stores"
                      /\ fs'.error = ""
                      /\ fs'.bop = files[1]
                      /\ folderCache'["BOP"] = files[1]]_vars

\* findStores has failed with RootFolderNotFound in a session whose cache was
\* filled before, and the cache is as it was
RootFolderNotFoundKeepsCache ==
    /\ fs.pc = "failed"
    /\ fs.error = RootFolderNotFound
    /\ fs.before["BOP"] # NoId
    /\ fs.before[Slot("dashboard", TheStore)] # NoId
    /\ folderCache = fs.before

\* the steps in which getStoreFolders and findInventarioFolder are called
SfCalled == Quiet /\ sf' # sf /\ sf'.pc # "idle"
FiCalled == Quiet /\ fi' # fi /\ fi'.pc # "idle"

\* C17: getStoreFolders(store) fails with DashboardNotFound, and
\* findInventarioFolder(store) with StoreFolderNotFound, before any network
\* call and without changing the cache, whenever the dashboard id (the store
\* id) of the store is not cached
UncachedStoreFailsAtOnce ==
    [][/\ (SfCalled /\ folderCache[Slot("dashboard", sf'.store)] = NoId) =>
              /\ sf'.pc = "failed"
              /\ sf'.error = DashboardNotFound
              /\ sf'.requests = 0
              /\ folderCache' = folderCache
       /\ (FiCalled /\ folderCache[Slot("store", fi'.store)] = NoId) =>
              /\ fi'.pc = "failed"
              /\ fi'.error = StoreFolderNotFound
              /\ fi'.requests = 0
              /\ folderCache' = folderCache]_vars

\* getStoreFolders has failed at once for the second store, in a session in
\* which findStores had filled the cache for the first store only
RejectedStoreHasNoDashboard ==
    /\ sf.pc = "failed"
    /\ sf.error = DashboardNotFound
    /\ sf.store = OtherStore
    /\ sf.requests = 0
    /\ sf.before[Slot("dashboard", TheStore)] # NoId
    /\ sf.before[Slot("store", OtherStore)] = NoId
    /\ folderCache = sf.before

\* the field of a StoreFolderSet for a role
FieldOf(result, role) ==
    CASE role = "today" -> result.todayId
      [] role = "history" -> result.historyId
      [] role = "admin_today" -> result.adminTodayId
      [] role = "admin_history" -> result.adminHistoryId

\* the files list of the folder of a role below a Dashboard of a tree
RoleFolder(t, role, dashboardId) ==
    IF role \in {"today", "history"}
    THEN BelowDashboard(t, role, dashboardId)
    ELSE BelowAdmin(t, role,
                    firstId(BelowDashboard(t, "admin", dashboardId)))

\* the step in which getStoreFolders returns
SfReturns == sf.pc \notin Rest /\ sf'.pc = "returned"

\* C18: getStoreFolders(store) with a cached dashboard id never fails
\* because a role folder is missing, and the StoreFolderSet it returns has
\* the field todayId, historyId, adminTodayId, adminHistoryId exactly for
\* those of the four roles whose folder exists, each field equal to the id
\* cached for that role (clearCache not having run during the call)
StoreFolderSetHasEveryRole ==
    [][/\ sf'.pc = "failed" =>
              sf'.error \in {DashboardNotFound, ApiRequestFailed,
                             NotAuthenticated}
       /\ (SfReturns /\ ~sf'.cleared) =>
              \A role \in RoleSet :
                  LET files == RoleFolder(tree, role, sf'.dashboardId)
                      field == FieldOf(sf'.result, role)
                  IN  /\ field # NoId <=> Len(files) > 0
                      /\ field # NoId =>
                             field = folderCache'[Slot(role, sf'.store)]]_vars

\* the steps in which a search of findStores or of getStoreFolders fails
FsProbeFails == fs.pc \notin Rest /\ fs'.error = ApiRequestFailed
SfProbeFails == sf.pc \notin Rest /\ sf'.error = ApiRequestFailed

\* the cache slots the suspended search of findStores or of getStoreFolders
\* fills when it finds its folder
FsSlots ==
    CASE fs.pc = "root" -> {"BOP"}
      [] fs.pc = "dashboard" ->
             {Slot("store", fs.candidates[fs.index].name),
              Slot("dashboard", fs.candidates[fs.index].name)}
      [] OTHER -> {}
SfSlots == IF sf.pc \in RoleSet THEN {Slot(sf.pc, sf.store)} ELSE {}

\* C19 as stated: when a probe of findStores or getStoreFolders fails the
\* error reaches the caller and the cache slot that probe would have filled
\* is unset afterwards: it holds no id, neither from the failed round nor
\* from an earlier round
FailedProbeLeavesSlotUnset ==
    [][/\ FsProbeFails =>
              /\ fs'.pc = "failed"
              /\ \A k \in FsSlots : folderCache'[k] = NoId
       /\ SfProbeFails =>
              /\ sf'.pc = "failed"
              /\ \A k \in SfSlots : folderCache'[k] = NoId]_vars

\* C19, amended: when a probe of findStores or getStoreFolders fails the
\* error reaches the caller and the failed probe writes nothing: the cache
\* slot it would have filled holds no id from the failed round, and keeps the
\* id of an earlier round if it had one; the next resolution call probes it
\* again whatever the slot holds
FailedProbeWritesNothing ==
    [][/\ FsProbeFails =>
              /\ fs'.pc = "failed"
              /\ folderCache' = folderCache
       /\ SfProbeFails =>
              /\ sf'.pc = "failed"
              /\ folderCache' = folderCache
       /\ (SfCalled /\ folderCache[Slot("dashboard", sf'.store)] # NoId) =>
              sf'.pc = "today" /\ sf'.requests = 1
       /\ (Quiet /\ fs' # fs /\ fs'.pc # "idle") =>
              fs'.pc = "root" /\ fs'.requests = 1]_vars

\* the search for Today has failed and the slot still holds the id an
\* earlier round found
FailedProbeOverOldId ==
    /\ sf.pc = "failed"
    /\ sf.error = ApiRequestFailed
    /\ sf.at = "today"
    /\ ~sf.cleared
    /\ folderCache[Slot("today", sf.store)] # NoId
    /\ folderCache = sf.before

\* clearCache has run: every slot is empty
Cleared == \A k \in CacheKeys : folderCache'[k] = NoId

InventarioSlots == {Slot("inventario", n) : n \in StoreNames}

-----------------------------------------------------------------------------
(* Ledger editor: the Inventario folder and the order of the requests      *)

\* removeDiscrepancia is suspended
RdSuspended == rdPc \notin {"idle", "done"}

\* C22: findOrCreateInventarioFolder(store) issues a folder-creation call
\* only when the search found no folder named Inventario under the store
\* folder; with a cached id it goes on with that id and no request for the
\* folder; it goes on with the id the search found, or else with the id of
\* the folder it created, and caches that id; when the creation fails it
\* raises an error and caches nothing
CreatesInventarioOnlyWhenAbsent ==
    [][/\ (rdPc' = "create" /\ rdPc # "create") =>
              /\ rdPc = "findFolder"
              /\ inventarioFolders = {}
              /\ folderCache["inventario"] = NoId
       /\ (~RdSuspended /\ rdPc' # "idle" /\ rdKey' # NoText
              /\ <<rdPc, rdOutcome, rdError, prevCall, rdKey, ledgerBefore>>
                     # <<rdPc', rdOutcome', rdError', prevCall', rdKey', ledgerBefore'>>
              /\ folderCache["store"] # NoId
              /\ folderCache["inventario"] # NoId) =>
              /\ rdPc' = "search"
              /\ inventarioId' = folderCache["inventario"]
              /\ folderCache' = folderCache
              /\ inventarioFolders' = inventarioFolders
       /\ (rdPc = "findFolder" /\ rdPc' = "search") =>
              /\ inventarioId' \in inventarioFolders
              /\ inventarioFolders' = inventarioFolders
              /\ folderCache'["inventario"] = inventarioId'
       /\ (rdPc = "create" /\ rdPc' = "search") =>
              /\ inventarioId' \notin inventarioFolders
              /\ inventarioFolders' = {inventarioId'}
              /\ folderCache'["inventario"] = inventarioId'
       /\ (rdPc = "create" /\ rdPc' = "done") =>
              /\ rdOutcome' = "error"
              /\ rdError' = "Failed to create Inventario folder"
              /\ folderCache' = folderCache
              /\ inventarioFolders' = inventarioFolders]_vars

\* the call has created the Inventario folder, cached its id and gone on to
\* the search for the ledger
InventarioCreatedAndCached ==
    /\ rdPc = "search"
    /\ inventarioId = CreatedId
    /\ folderCache["inventario"] = CreatedId
    /\ inventarioFolders = {CreatedId}

\* the order of the positions of a removeDiscrepancia call
RdRank(pc) ==
    CASE pc = "findFolder" -> 1
      [] pc = "create" -> 2
      [] pc = "search" -> 3
      [] pc = "download" -> 4
      [] pc = "upload" -> 5
      [] pc = "done" -> 6
      [] OTHER -> 0

\* C30: inside one removeDiscrepancia call the events occur in the order
\* folder resolution, ledger search, download, upload: the upload is issued
\* only after the download has completed successfully, at most one upload is
\* issued per call, it writes the file that was downloaded, and success is
\* reported only after the upload succeeded or when no upload was needed
RequestsInOrder ==
    [][/\ (RdSuspended /\ rdPc' # rdPc) => RdRank(rdPc') > RdRank(rdPc)
       /\ (rdPc' = "download" /\ rdPc # "download") =>
              rdPc = "search" /\ nDownloads' = 1
       /\ (rdPc' = "upload" /\ rdPc # "upload") =>
              /\ rdPc = "download"
              /\ csvContent' = text(ledger.content)
              /\ nDownloads = 1
              /\ nUploads' = 1
       /\ nUploads' <= 1
       /\ ledger' # ledger =>
              /\ rdPc = "upload"
              /\ ledger.exists /\ ledger'.exists
              /\ ledger.folder = inventarioId /\ ledger'.folder = inventarioId
              /\ ledger'.content = newContent
       /\ (RdSuspended /\ rdPc' = "done" /\ rdOutcome' = "ok") =>
              \/ rdPc = "upload" /\ ledger'.content = newContent
              \/ nUploads' = 0]_vars

\* a call has searched, downloaded, uploaded and reported success
UploadedThenReported ==
    /\ rdPc = "done"
    /\ rdOutcome = "ok"
    /\ nDownloads = 1
    /\ nUploads = 1
    /\ ledger.content = newContent
    /\ ledger # ledgerBefore

-----------------------------------------------------------------------------
(* Merge: a failing search of the locate step                              *)

\* C27 as stated: the failure of one search probe of the locate step does
\* not make getChecklistForDate fail; the call goes on with the files of
\* the other probes
LocateNeverFails ==
    [][(gcPc = "locating" /\ gcPc' # gcPc) => gcPc' # "failed"]_vars

\* C27: the locate step is all or nothing: when the search of one probe
\* fails the call fails with that error and nothing is downloaded or merged,
\* whatever the other probes found; otherwise the call goes on with the
\* files of every probe
LocateIsAllOrNothing ==
    [][(gcPc = "locating" /\ gcPc' # gcPc) =>
          \/ /\ gcPc' = "failed"
             /\ gcResult'.kind = "error"
             /\ allFiles' = <<>>
             /\ results' = <<>>
          \/ /\ gcPc' \in {"returned", "downloading"}
             /\ allFiles' = locateAll(folderCache, remoteFiles)
             /\ Len(results') = Len(allFiles')]_vars

\* the call failed in the locate step although the probes had files to find
LocateFailedOverFoundFiles ==
    /\ gcPc = "failed"
    /\ gcResult.kind = "error"
    /\ Len(locateAll(folderCache, remoteFiles)) > 0
    /\ results = <<>>

-----------------------------------------------------------------------------
(* Folder resolver: the order of the probes of one round                   *)

\* the place of a probe in the round of getStoreFolders
ProbeRank(pc) ==
    CASE pc = "today" -> 1
      [] pc = "history" -> 2
      [] pc = "admin" -> 3
      [] pc = "admin_today" -> 4
      [] pc = "admin_history" -> 5
      [] OTHER -> 0

-----------------------------------------------------------------------------
(* Stats of a parsed document: claims                                      *)

\* C26: for every checklist item list the stats have total = number of
\* items, completed = number of completed items, pending = total -
\* completed and percentage = round(100 * completed / total), which is 0
\* when total is 0 and lies in 0..100; the stats of the document are the
\* sums of the totals, completed and pending counts of its checklists
StatsAreTheRoundedRatio ==
    parsedData # NoParsed =>
        /\ \A k \in 1..Len(rawData) :
              LET st == parsedData.checklists[k]
                  completed == Cardinality({i \in 1..Len(rawData[k]) : rawData[k][i]})
              IN  /\ st.total = Len(rawData[k])
                  /\ st.completed = completed
                  /\ st.pending = st.total - st.completed
                  /\ st.percentage = percentageExact(completed, Len(rawData[k]))
                  /\ st.percentage \in 0..100
                  /\ st.total = 0 => st.percentage = 0
        /\ parsedData.stats.total =
              sumOver(parsedData.checklists, "total", Len(rawData))
        /\ parsedData.stats.completed =
              sumOver(parsedData.checklists, "completed", Len(rawData))
        /\ parsedData.stats.pending =
              sumOver(parsedData.checklists, "pending", Len(rawData))

-----------------------------------------------------------------------------
(* Session: claims                                                         *)

\* C21: after handleLogout every slot of the folder cache is unset and
\* stays unset until a resolution call issued after the logout fills it: no
\* slot is filled by a call that was suspended when the user logged out
OnlyNewCallsFillAfterLogout ==
    [][\A k \in CacheKeys :
          (folderCache[k] = NoId /\ folderCache'[k] # NoId) =>
              ~fs.cleared /\ ~sf.cleared /\ ~fi.cleared]_vars

-----------------------------------------------------------------------------
(* Application: claims                                                     *)

\* the selection the application holds, as a request
Selected == Request(appState.selectedStore, appState.selectedDate)

\* C23: the refresh timer is cancelled whenever the selected date or the
\* selected store changes: no timer armed under a previous selection is
\* active, and none ticks, while the selection is another one
TimerIsOfTheSelection ==
    refreshInterval.armed =>
        Request(refreshInterval.store, refreshInterval.date) = Selected

\* C24: a response that was requested for a (store, date) that is no longer
\* the selection when it arrives is not rendered: once every request has
\* answered, the checklists on the screen are those of the selected store
\* and date
ScreenShowsTheSelection ==
    (storeLoads = 0 /\ loads = NoRequests /\ runs = NoRequests /\ view.shown) =>
        view.content = Selected

\* C25: a refresh run never lets an error out: when its request fails the
\* indicator goes to offline, the screen stays as it was and the timer as it
\* was; a run that finds no data leaves the screen as it was too
RefreshFailureIsContained ==
    [][tick' # "none" =>
          /\ uncaught' = uncaught
          /\ refreshInterval' = refreshInterval
          /\ tick' = "error" => online' = FALSE /\ view' = view
          /\ tick' = "null" => view' = view /\ online' = online]_vars

\* a refresh run has just failed under an armed timer, over rendered
\* checklists
RefreshFailedOverChecklists ==
    /\ tick = "error"
    /\ online = FALSE
    /\ uncaught = FALSE
    /\ refreshInterval.armed
    /\ view.shown
    /\ view.content = Selected

\* C29: refresh runs never overlap: no two runs of refreshCurrentDate are
\* suspended together, and no run is suspended together with a selectDate
\* load
RefreshRunsNeverOverlap ==
    /\ Outstanding(runs) <= 1
    /\ runs # NoRequests => loads = NoRequests

ArmedIffSelectionLoaded ==
    (storeLoads = 0 /\ loads = NoRequests /\ selectionLoad # "none") =>
        (refreshInterval.armed <=> selectionLoad = "data")

\* C38: a selectStore call that fails reports the error once, calls no
\* selectDate, arms no timer and leaves the selection and the dates loaded
\* before as they were, with the store of the call selected
FailedSelectStoreAborts ==
    [][storeAnswer' = "error" =>
          /\ alerts' = 1
          /\ loads' = loads
          /\ refreshInterval' = refreshInterval
          /\ appState' = appState
          /\ appState.selectedStore \in StoreNames]_vars

\* a selectStore call has just failed over the dates of an earlier store
SelectStoreFailedOverDates ==
    /\ storeAnswer = "error"
    /\ alerts = 1
    /\ storeLoads = 0
    /\ loads = NoRequests
    /\ selectionLoad = "none"
    /\ appState.availableDates # {}
    /\ appState.selectedStore \in StoreNames
    /\ ~refreshInterval.armed

-----------------------------------------------------------------------------
(* The Inventario tab: claims                                              *)

\* C35: marcarRevisado changes the items in memory only after the remote
\* removal succeeded: while it is awaited and when it failed the items are
\* those before the call and the error leaves the function; when it
\* succeeded the items are those before without the rows of that Articulo,
\* in order; without a store the call fails before any remote call
MarkRemovesAfterSuccess ==
    /\ mrPc = "awaiting" => items = mrBefore.items
    /\ mrPc = "failed" =>
          /\ items = mrBefore.items
          /\ IF currentStore = NoStore
             THEN rdPc = "idle" /\ ledger = mrBefore.ledger
             ELSE rdPc = "done" /\ rdOutcome = "error"
    /\ mrPc = "returned" =>
          /\ rdPc = "done" /\ rdOutcome = "ok"
          /\ items = ItemsWithoutKeys(mrBefore.items, {rdKey})
    /\ (mrPc # "idle" /\ rdPc = "done") =>
          (mrPc # "returned" <=> rdOutcome = "error") \/ mrPc = "awaiting"

\* an OK click removed one of two rows in memory, and the ledger lost the
\* row too
MarkedOneOfTwo ==
    /\ mrPc = "returned"
    /\ Len(mrBefore.items) = 2
    /\ Len(items) = 1
    /\ items[1][Articulo] # rdKey
    /\ RowsWithKey(mrBefore.ledger, rdKey) # {}
    /\ RowsWithKey(ledger, rdKey) = {}

\* every load has ended
LoadsEnded == \A s \in StoreNames : li[s].pc = "idle"

\* the rows of the ledger of a store
RowsOf(s) ==
    IF RemoteLedger(s).exists THEN parseCSV(text(RemoteLedger(s).content))
    ELSE <<>>

\* C36: once every load has ended, the items in memory are rows of the
\* ledger of Inventario's currentStore (all of them, or none after a load
\* that failed or found no ledger), also when the loads of two stores
\* overlapped; marcarRevisado then removes from the ledger the row came from
ItemsOfCurrentStore ==
    (LoadsEnded /\ currentStore # NoStore) =>
        items \in {<<>>, RowsOf(currentStore)}

\* C31: every creation of an Inventario folder adds one folder to the
\* store, whether or not one exists by then, and leaves its id in the cache:
\* two calls that both found no folder leave two folders, and the cache holds
\* the id of the creation that completed last
CreationCachesItsFolder ==
    [][inventarioFolders' # inventarioFolders =>
          /\ Cardinality(inventarioFolders' \ inventarioFolders) = 1
          /\ inventarioFolders \subseteq inventarioFolders'
          /\ folderCache'[Slot("inventario", TheStore)]
                 \in inventarioFolders' \ inventarioFolders]_vars

\* two folders named Inventario under the store; the removal created its
\* folder after the load had created and cached another
DuplicateInventarioFolders ==
    /\ inventarioFolders = {CreatedId, LoadCreatedId}
    /\ li[TheStore].inventarioId = LoadCreatedId
    /\ inventarioId = CreatedId
    /\ folderCache[Slot("inventario", TheStore)] = CreatedId

\* C32: ledger rows are not kept from one load to the next: when the load
\* called last found no ledger or failed, and no load is in flight, the
\* items in memory are empty
LoadWithoutLedgerLeavesNoItems ==
    \A s \in StoreNames :
        (LoadsEnded /\ currentStore = s /\ li[s].outcome \in {"null", "error"})
            => items = <<>>

-----------------------------------------------------------------------------
(* listAvailableDates: claims                                              *)

\* the dates d with a file named d.json in the folder of a cached role
DatesOnFile ==
    {d \in {SubSeq(name, 1, 10) :
                name \in {n \in UNION {roleFiles[r] : r \in RoleSet} : Len(n) >= 10}} :
        /\ \A i \in {1, 2, 3, 4, 6, 7, 9, 10} : isDigit(d[i])
        /\ d[5] = "-" /\ d[8] = "-"
        /\ \E r \in RoleSet :
              folderCache[r] # NoId /\ (d \o DotJson) \in roleFiles[r]}

\* later(a, b): the date a is after the date b
later(a, b) ==
    LET differ == {i \in 1..10 : a[i] # b[i]} IN
    /\ differ # {}
    /\ LET i == CHOOSE j \in differ : \A k \in differ : j <= k IN
         DigitVal(a[i]) > DigitVal(b[i])

=============================================================================
